---- MODULE Spec2Model ----
(***************************************************************************)
(* LabBuilder: the network model, the address-lease engine, system wiring  *)
(* and the indentation-aware text builder.                                 *)
(*                                                                         *)
(* Conventions of the model                                                *)
(*   Option<T>      None is <<>>, Some(x) is <<x>>.                        *)
(*   Result<T, E>   [ok |-> TRUE, val |-> x] or [ok |-> FALSE, err |-> e]. *)
(*   Ipv4Addr       a pair <<high 16 bits, low 16 bits>> of the 32-bit     *)
(*                  address, compared lexicographically.                  *)
(*   toml::Value    a record with a "kind": "absent" (the key is missing), *)
(*                  "int", "str" or "array"; the others carry "v".         *)
(*   Rc<Network>    the index of the network in the scenario's list.       *)
(*   error text     a tuple of the message's pieces, in order.             *)
(***************************************************************************)
EXTENDS Integers, Sequences, FiniteSets, Bags, TLC

VARIABLES
    networks,      \* scenario.networks : Vec<Rc<Network>>
    systems,       \* scenario.systems  : Vec<System>
    last,          \* the last operation, its arguments and what it returned
    returned,      \* per network: how often each address was returned by a lease call
    log,           \* the calls made so far, in order: which operation on which object
    status,        \* per system: "Unwired", "Wired" or "Failed" (outcome of its last wiring)
    output,        \* Option: the emitted script
    toml,          \* the network record handed to Network::from_toml
    built,         \* Option: what Network::from_toml returned for toml
    builder        \* Option: an IndentationAwareStringBuilder under calls

vars == <<networks, systems, last, returned, log, status, output, toml, built, builder>>

(***************************************************************************)
(* Bounds of the model.                                                    *)
(***************************************************************************)
MaxTotalRefs == 3      \* declared network references, summed over the systems
MaxExtraCalls == 1     \* calls beyond one wiring per system: get_address_lease calls
                       \* issued directly, and configure_networking calls on a
                       \* system that was called before

MaxNetworks == 4       \* network records of a scenario record
MaxSystems == 2        \* system records of a scenario record

MaxBuilderCalls == 4   \* calls on a builder ahead of build_string

None == <<>>
Some(x) == <<x>>
Ok(x) == [ok |-> TRUE, val |-> x]
Err(e) == [ok |-> FALSE, err |-> e]

(***************************************************************************)
(* Ipv4Addr and Ipv4Net (crate ipnet), 32 bits wide.                       *)
(***************************************************************************)
Half == 65536

Ip(a, b, c, d) == <<a * 256 + b, c * 256 + d>>

AddrLE(x, y) == x[1] < y[1] \/ (x[1] = y[1] /\ x[2] <= y[2])

\* Ipv4Addr::saturating_add(1)
saturating_add_one(x) ==
    IF x[2] < Half - 1 THEN <<x[1], x[2] + 1>>
    ELSE IF x[1] < Half - 1 THEN <<x[1] + 1, 0>>
    ELSE x

\* Ipv4Addr::saturating_sub(1)
saturating_sub_one(x) ==
    IF x[2] > 0 THEN <<x[1], x[2] - 1>>
    ELSE IF x[1] > 0 THEN <<x[1] - 1, Half - 1>>
    ELSE x

RECURSIVE Pow2(_)
Pow2(n) == IF n = 0 THEN 1 ELSE 2 * Pow2(n - 1)

\* Ipv4Net::prefix_len
prefix_len(net) == net.prefix

\* the address taken as it is written, host bits kept
network_unmasked(net) == net.addr

\* Ipv4Net::network: the address with the host bits cleared
network(net) ==
    IF net.prefix >= 16
    THEN <<net.addr[1], net.addr[2] - (net.addr[2] % Pow2(32 - net.prefix))>>
    ELSE <<net.addr[1] - (net.addr[1] % Pow2(16 - net.prefix)), 0>>

\* Ipv4Net::broadcast: the address with the host bits set
broadcast(net) ==
    IF net.prefix >= 16
    THEN <<net.addr[1], network(net)[2] + Pow2(32 - net.prefix) - 1>>
    ELSE <<network(net)[1] + Pow2(16 - net.prefix) - 1, Half - 1>>

\* containment decided by the inner range's first address alone
contains_start_only(outer, inner) ==
    /\ AddrLE(network(outer), network(inner))
    /\ AddrLE(network(inner), broadcast(outer))

\* Ipv4Net::contains(&Ipv4Net)
contains(outer, inner) ==
    /\ AddrLE(network(outer), network(inner))
    /\ AddrLE(broadcast(inner), broadcast(outer))

\* Ipv4Net::contains(&Ipv4Addr)
contains_addr(net, a) == AddrLE(network(net), a) /\ AddrLE(a, broadcast(net))

\* hosts without the step past the network address
hosts_from_network_address(net) ==
    [start |-> network(net), end |-> saturating_sub_one(broadcast(net))]

\* Ipv4Net::hosts: the inclusive range of host addresses
hosts(net) ==
    IF net.prefix < 31
    THEN [start |-> saturating_add_one(network(net)),
          end   |-> saturating_sub_one(broadcast(net))]
    ELSE [start |-> network(net), end |-> broadcast(net)]

(***************************************************************************)
(* The text of a subnet is kept as its dotted numbers and the number after *)
(* the slash (<<>> when the text has no slash).  str::parse::<Ipv4Net>     *)
(* accepts four numbers of at most 255 and a prefix length of at most 32.  *)
(***************************************************************************)
Cidr(a, b, c, d, p) == [octets |-> <<a, b, c, d>>, prefix |-> <<p>>]
Dotted(a, b, c, d) == [octets |-> <<a, b, c, d>>, prefix |-> <<>>]

parse(text) ==
    IF /\ Len(text.octets) = 4
       /\ \A i \in 1..Len(text.octets) : text.octets[i] \in 0..255
       /\ Len(text.prefix) = 1
       /\ text.prefix[1] \in 0..32
    THEN Ok([addr   |-> Ip(text.octets[1], text.octets[2], text.octets[3], text.octets[4]),
             prefix |-> text.prefix[1]])
    ELSE Err("AddrParseError")

(***************************************************************************)
(* toml::Value                                                             *)
(***************************************************************************)
Absent == [kind |-> "absent"]
TomlInt(n) == [kind |-> "int", v |-> n]
TomlStr(s) == [kind |-> "str", v |-> s]
TomlArray(a) == [kind |-> "array", v |-> a]

\* Value::get(key): None when the table has no such key
get(table, key) == IF table[key].kind = "absent" THEN None ELSE Some(table[key])

\* Value::as_str
as_str(value) == IF value.kind = "str" THEN Some(value.v) ELSE None

\* Value::as_array
as_array(value) == IF value.kind = "array" THEN Some(value.v) ELSE None

(***************************************************************************)
(* Network::from_toml                                                      *)
(***************************************************************************)
private_nets ==
    << [addr |-> Ip(10, 0, 0, 0),    prefix |-> 8],
       [addr |-> Ip(172, 16, 0, 0),  prefix |-> 12],
       [addr |-> Ip(192, 168, 0, 0), prefix |-> 16] >>

\* the prefix length check with the upper bound off by one
check_prefix_len_to_31(subnet, network_name) ==
    IF prefix_len(subnet) \in 0..31
    THEN Ok(subnet)
    ELSE Err(<<"Network \"", network_name,
               "\" configured with a subnet smaller than /30. Networks smaller than /30 can't have multiple hosts.">>)

\* .and_then(|subnet| match subnet.prefix_len() { 0...30 => Ok(subnet), _ => Err(..) })
check_prefix_len(subnet, network_name) ==
    IF prefix_len(subnet) \in 0..30
    THEN Ok(subnet)
    ELSE Err(<<"Network \"", network_name,
               "\" configured with a subnet smaller than /30. Networks smaller than /30 can't have multiple hosts.">>)

\* .and_then(|subnet| if private_nets.iter().any(|n| n.contains(&subnet)) ..)
check_rfc1918(subnet, network_name) ==
    IF \E i \in 1..Len(private_nets) : contains(private_nets[i], subnet)
    THEN Ok(subnet)
    ELSE Err(<<"Subnet configured for network \"", network_name,
               "\" is not RFC 1918 compliant. Subnets must be in valid allocation for private networks.">>)

\* the chain with the RFC 1918 check ahead of the prefix length check
internal_subnet_rfc1918_first(network_toml, network_name) ==
    IF get(network_toml, "subnet") = None
    THEN Err(<<"Could not read subnet for network: ", network_name>>)
    ELSE IF as_str(get(network_toml, "subnet")[1]) = None
    THEN Err(<<"Could not read subnet as string for network: ", network_name>>)
    ELSE LET parsed == parse(as_str(get(network_toml, "subnet")[1])[1]) IN
         IF ~parsed.ok
         THEN Err(<<"Could not parse subnet as a valid CIDR range for network: ", network_name>>)
         ELSE LET private == check_rfc1918(parsed.val, network_name) IN
              IF ~private.ok THEN private
              ELSE check_prefix_len(private.val, network_name)

\* the chain that yields the subnet of an Internal network
internal_subnet(network_toml, network_name) ==
    IF get(network_toml, "subnet") = None
    THEN Err(<<"Could not read subnet for network: ", network_name>>)
    ELSE IF as_str(get(network_toml, "subnet")[1]) = None
    THEN Err(<<"Could not read subnet as string for network: ", network_name>>)
    ELSE LET parsed == parse(as_str(get(network_toml, "subnet")[1])[1]) IN
         IF ~parsed.ok
         THEN Err(<<"Could not parse subnet as a valid CIDR range for network: ", network_name>>)
         ELSE LET sized == check_prefix_len(parsed.val, network_name) IN
              IF ~sized.ok THEN sized
              ELSE check_rfc1918(sized.val, network_name)

\* the else branch rejecting only a subnet value that reads as a string
public_subnet_strings_only(network_toml, network_name) ==
    IF get(network_toml, "subnet") = None \/ as_str(get(network_toml, "subnet")[1]) = None
    THEN Ok(None)
    ELSE Err(<<"Network \"", network_name,
               "\" is configured as a Public network and has a subnet configured. Public networks can't have configured subnets.">>)

\* the else branch: a Public network must have no subnet key
public_subnet(network_toml, network_name) ==
    IF get(network_toml, "subnet") = None
    THEN Ok(None)
    ELSE Err(<<"Network \"", network_name,
               "\" is configured as a Public network and has a subnet configured. Public networks can't have configured subnets.">>)

\* the tail giving a lease set to a network of either type
new_network_lease_set_for_all(network_name, network_type, subnet) ==
    [name            |-> network_name,
     network_type    |-> network_type,
     subnet          |-> subnet,
     available_hosts |-> IF network_type = "Internal" THEN Some(hosts(subnet[1])) ELSE None,
     allocated_hosts |-> Some({})]

\* the tail with the type's text taken for the name
new_network_named_by_type(network_name, network_type, subnet) ==
    [name            |-> network_type,
     network_type    |-> network_type,
     subnet          |-> subnet,
     available_hosts |-> IF network_type = "Internal" THEN Some(hosts(subnet[1])) ELSE None,
     allocated_hosts |-> IF network_type = "Internal" THEN Some({}) ELSE None]

\* the tail of from_toml once name, type and subnet are known
new_network(network_name, network_type, subnet) ==
    [name            |-> network_name,
     network_type    |-> network_type,
     subnet          |-> subnet,
     available_hosts |-> IF network_type = "Internal" THEN Some(hosts(subnet[1])) ELSE None,
     allocated_hosts |-> IF network_type = "Internal" THEN Some({}) ELSE None]

Network_from_toml(network_toml) ==
    IF get(network_toml, "name") = None
    THEN Err(<<"Could not read network name">>)
    ELSE IF as_str(get(network_toml, "name")[1]) = None
    THEN Err(<<"Could not read network name as a string">>)
    ELSE LET network_name == as_str(get(network_toml, "name")[1])[1] IN
    IF get(network_toml, "type") = None
    THEN Err(<<"Could not read network type for network: ", network_name>>)
    ELSE IF as_str(get(network_toml, "type")[1]) = None
    THEN Err(<<"Could not read network type as a string for network: ", network_name>>)
    ELSE LET network_type_unparsed == as_str(get(network_toml, "type")[1])[1] IN
    IF network_type_unparsed \notin {"Public", "Internal"}
    THEN Err(<<"Could not parse network type as a valid type for network: ", network_name,
               ". Valid types are: Public, Internal">>)
    ELSE IF network_type_unparsed = "Internal"
    THEN LET subnet == internal_subnet(network_toml, network_name) IN
         IF ~subnet.ok THEN subnet
         ELSE Ok(new_network(network_name, "Internal", Some(subnet.val)))
    ELSE LET subnet == public_subnet(network_toml, network_name) IN
         IF ~subnet.ok THEN subnet
         ELSE Ok(new_network(network_name, "Public", None))

(***************************************************************************)
(* Network::get_address_lease                                              *)
(***************************************************************************)
\* the scan taking the range's end as exclusive
RECURSIVE skip_while_next_exclusive(_, _, _)
skip_while_next_exclusive(cur, end, allocated) ==
    IF ~AddrLE(cur, end) \/ cur = end THEN None
    ELSE IF cur \notin allocated THEN Some(cur)
    ELSE skip_while_next_exclusive(saturating_add_one(cur), end, allocated)

\* range.skip_while(|addr| allocated.contains(addr)).next()
RECURSIVE skip_while_next(_, _, _)
skip_while_next(cur, end, allocated) ==
    IF ~AddrLE(cur, end) THEN None
    ELSE IF cur \notin allocated THEN Some(cur)
    ELSE IF cur = end THEN None
    ELSE skip_while_next(saturating_add_one(cur), end, allocated)

\* the lease returned without being recorded in allocated_hosts
get_address_lease_unrecorded(net) ==
    IF net.allocated_hosts = None \/ net.available_hosts = None
    THEN [ret |-> None, net |-> net]
    ELSE [ret |-> skip_while_next(net.available_hosts[1].start,
                                  net.available_hosts[1].end,
                                  net.allocated_hosts[1]),
          net |-> net]

\* the call that keeps only the address just leased in the lease set
get_address_lease_forgetting(net) ==
    IF net.allocated_hosts = None \/ net.available_hosts = None
    THEN [ret |-> None, net |-> net]
    ELSE LET leased_addr == skip_while_next(net.available_hosts[1].start,
                                            net.available_hosts[1].end,
                                            net.allocated_hosts[1]) IN
         IF leased_addr = None
         THEN [ret |-> None, net |-> net]
         ELSE [ret |-> leased_addr,
               net |-> [net EXCEPT !.allocated_hosts = Some({leased_addr[1]})]]

\* returns the Option<Ipv4Addr> and the network as the call leaves it
get_address_lease(net) ==
    IF net.allocated_hosts = None \/ net.available_hosts = None
    THEN [ret |-> None, net |-> net]
    ELSE LET leased_addr == skip_while_next(net.available_hosts[1].start,
                                            net.available_hosts[1].end,
                                            net.allocated_hosts[1]) IN
         IF leased_addr = None
         THEN [ret |-> None, net |-> net]
         ELSE [ret |-> leased_addr,
               net |-> [net EXCEPT !.allocated_hosts = Some(@[1] \cup {leased_addr[1]})]]

(***************************************************************************)
(* System::from_toml                                                       *)
(***************************************************************************)
\* the collection that keeps one occurrence of every name
RECURSIVE collect_names_once(_, _, _)
collect_names_once(array, system_name, acc) ==
    IF array = <<>> THEN Ok(acc)
    ELSE IF as_str(Head(array)) = None
    THEN Err(<<"Could not parse networks for system: ", system_name>>)
    ELSE collect_names_once(Tail(array), system_name,
            IF \E i \in 1..Len(acc) : acc[i] = as_str(Head(array))[1]
            THEN acc
            ELSE Append(acc, as_str(Head(array))[1]))

\* .map(|network_name_toml| network_name_toml.as_str().ok_or(..)).collect():
\* the names in order, or the error of the first entry that is no string
RECURSIVE collect_names(_, _, _)
collect_names(array, system_name, acc) ==
    IF array = <<>> THEN Ok(acc)
    ELSE IF as_str(Head(array)) = None
    THEN Err(<<"Could not parse networks for system: ", system_name>>)
    ELSE collect_names(Tail(array), system_name, Append(acc, as_str(Head(array))[1]))

\* the System with the base_box value taken for its name
new_system_named_by_base_box(name, network_names, base_box) ==
    [name                     |-> base_box,
     networks                 |-> <<>>,
     network_names            |-> network_names,
     base_box                 |-> base_box,
     leased_network_addresses |-> <<>>]

\* the System with an empty lease list entered for every declared name
new_system_with_lease_entries(name, network_names, base_box) ==
    [name                     |-> name,
     networks                 |-> <<>>,
     network_names            |-> network_names,
     base_box                 |-> base_box,
     leased_network_addresses |-> [n \in {network_names[i] : i \in 1..Len(network_names)} |-> <<>>]]

\* the System as from_toml fills it: the fields read from the record, the
\* rest as System { networks: Vec::new(), leased_network_addresses: HashMap::new() }
new_system(name, network_names, base_box) ==
    [name                     |-> name,
     networks                 |-> <<>>,
     network_names            |-> network_names,
     base_box                 |-> base_box,
     leased_network_addresses |-> <<>>]

System_from_toml(system_toml) ==
    IF get(system_toml, "name") = None
    THEN Err(<<"Could not read name of system">>)
    ELSE IF as_str(get(system_toml, "name")[1]) = None
    THEN Err(<<"Could not read name of system as a string">>)
    ELSE LET name == as_str(get(system_toml, "name")[1])[1] IN
    IF get(system_toml, "networks") = None
    THEN Err(<<"Could not read networks for system: ", name>>)
    ELSE IF as_array(get(system_toml, "networks")[1]) = None
    THEN Err(<<"Could not read networks for system: ", name>>)
    ELSE LET network_names == collect_names(as_array(get(system_toml, "networks")[1])[1], name, <<>>) IN
    IF ~network_names.ok THEN network_names
    ELSE IF get(system_toml, "base_box") = None
    THEN Err(<<"Could not read base_box for system: ", name>>)
    ELSE IF as_str(get(system_toml, "base_box")[1]) = None
    THEN Err(<<"Could not read base_box as a string for system: ", name>>)
    ELSE Ok(new_system(name, network_names.val, as_str(get(system_toml, "base_box")[1])[1]))

(***************************************************************************)
(* System::configure_networking                                            *)
(***************************************************************************)
\* a lookup that falls back to the first network when no name matches
find_or_first(scenario_networks, network_name) ==
    LET hits == {i \in 1..Len(scenario_networks) : scenario_networks[i].name = network_name} IN
    IF hits = {} THEN Some(1)
    ELSE Some(CHOOSE i \in hits : \A j \in hits : i <= j)

\* a lookup that returns the last network of the name
find_last(scenario_networks, network_name) ==
    LET hits == {i \in 1..Len(scenario_networks) : scenario_networks[i].name = network_name} IN
    IF hits = {} THEN None
    ELSE Some(CHOOSE i \in hits : \A j \in hits : i >= j)

\* scenario_networks.iter().find(|&network| &network.name == network_name)
find(scenario_networks, network_name) ==
    LET hits == {i \in 1..Len(scenario_networks) : scenario_networks[i].name = network_name} IN
    IF hits = {} THEN None
    ELSE Some(CHOOSE i \in hits : \A j \in hits : i <= j)

\* the map over network_names collected into a Result: the resolved networks
\* in declared order, or the error of the first name that resolves to nothing
RECURSIVE resolve(_, _, _, _)
resolve(network_names, scenario_networks, system_name, acc) ==
    IF network_names = <<>> THEN Ok(acc)
    ELSE IF find(scenario_networks, Head(network_names)) = None
    THEN Err(<<"System \"", system_name, "\" is configured to use network \"",
               Head(network_names), "\" but no network with that name could be found">>)
    ELSE resolve(Tail(network_names), scenario_networks, system_name,
                 Append(acc, find(scenario_networks, Head(network_names))[1]))

\* the resolved networks without the filter on the network type
internal_nets_unfiltered(system_networks, scenario_networks) == system_networks

\* self.networks.iter().cloned().filter(|net| net.network_type == Internal).collect()
internal_nets(system_networks, scenario_networks) ==
    SelectSeq(system_networks, LAMBDA n : scenario_networks[n].network_type = "Internal")

\* the entry updated by inserting at the front instead of pushing
push_lease_front(leases, name, addr) ==
    IF name \in DOMAIN leases
    THEN [leases EXCEPT ![name] = <<addr>> \o @]
    ELSE [k \in DOMAIN leases \cup {name} |-> IF k = name THEN <<addr>> ELSE leases[k]]

\* leased_network_addresses.entry(name).and_modify(|e| e.push(addr)).or_insert_with(|| vec![addr])
push_lease(leases, name, addr) ==
    IF name \in DOMAIN leases
    THEN [leases EXCEPT ![name] = Append(@, addr)]
    ELSE [k \in DOMAIN leases \cup {name} |-> IF k = name THEN <<addr>> ELSE leases[k]]

\* the loop going on to the next network when a lease call returns None
RECURSIVE lease_loop_skipping(_, _)
lease_loop_skipping(nets, st) ==
    IF nets = <<>> THEN [st EXCEPT !.result = Ok("unit")]
    ELSE LET n      == Head(nets)
             lease  == get_address_lease(st.networks[n])
             call   == [net |-> n, before |-> st.networks[n].allocated_hosts,
                        after |-> lease.net.allocated_hosts, ret |-> lease.ret]
         IN
         IF lease.ret = None
         THEN lease_loop_skipping(Tail(nets), [st EXCEPT !.calls = Append(@, call)])
         ELSE lease_loop_skipping(Tail(nets),
                  [st EXCEPT !.networks = [@ EXCEPT ![n] = lease.net],
                             !.leases   = push_lease(@, st.networks[n].name, lease.ret[1]),
                             !.calls    = Append(@, call)])

\* the loop emptying the system's lease map when a lease call returns None
RECURSIVE lease_loop_clearing(_, _)
lease_loop_clearing(nets, st) ==
    IF nets = <<>> THEN [st EXCEPT !.result = Ok("unit")]
    ELSE LET n      == Head(nets)
             lease  == get_address_lease(st.networks[n])
             call   == [net |-> n, before |-> st.networks[n].allocated_hosts,
                        after |-> lease.net.allocated_hosts, ret |-> lease.ret]
         IN
         IF lease.ret = None
         THEN [st EXCEPT !.calls = Append(@, call),
                         !.leases = <<>>,
                         !.result = Err(<<"Subnet for network \"", st.networks[n].name,
                                          "\" does not have enough available addresses for all systems configured to use it.">>)]
         ELSE lease_loop_clearing(Tail(nets),
                  [st EXCEPT !.networks = [@ EXCEPT ![n] = lease.net],
                             !.leases   = push_lease(@, st.networks[n].name, lease.ret[1]),
                             !.calls    = Append(@, call)])

\* for net in internal_nets.into_iter() { .. }: st carries the scenario's
\* networks, the system's lease map and the lease calls made so far
RECURSIVE lease_loop(_, _)
lease_loop(nets, st) ==
    IF nets = <<>> THEN [st EXCEPT !.result = Ok("unit")]
    ELSE LET n      == Head(nets)
             lease  == get_address_lease(st.networks[n])
             call   == [net |-> n, before |-> st.networks[n].allocated_hosts,
                        after |-> lease.net.allocated_hosts, ret |-> lease.ret]
         IN
         IF lease.ret = None
         THEN [st EXCEPT !.calls = Append(@, call),
                         !.result = Err(<<"Subnet for network \"", st.networks[n].name,
                                          "\" does not have enough available addresses for all systems configured to use it.">>)]
         ELSE lease_loop(Tail(nets),
                  [st EXCEPT !.networks = [@ EXCEPT ![n] = lease.net],
                             !.leases   = push_lease(@, st.networks[n].name, lease.ret[1]),
                             !.calls    = Append(@, call)])

\* the networks resolved ahead of the first name that resolves to nothing
RECURSIVE resolved_so_far(_, _, _)
resolved_so_far(network_names, scenario_networks, acc) ==
    IF network_names = <<>> \/ find(scenario_networks, Head(network_names)) = None
    THEN acc
    ELSE resolved_so_far(Tail(network_names), scenario_networks,
                         Append(acc, find(scenario_networks, Head(network_names))[1]))

\* the wiring in one pass: a lease is taken for every reference resolved
\* ahead of the first unresolved name, whose error is then returned
configure_networking_in_one_pass(self, scenario_networks) ==
    LET system_networks == resolve(self.network_names, scenario_networks, self.name, <<>>)
        appended == self.networks
                       \o resolved_so_far(self.network_names, scenario_networks, <<>>)
        done == lease_loop(internal_nets(appended, scenario_networks),
                           [networks |-> scenario_networks,
                            leases   |-> self.leased_network_addresses,
                            calls    |-> <<>>,
                            result   |-> Ok("unit")])
    IN [result   |-> IF done.result.ok /\ ~system_networks.ok
                     THEN system_networks ELSE done.result,
        system   |-> [self EXCEPT !.networks = appended,
                                  !.leased_network_addresses = done.leases],
        networks |-> done.networks,
        calls    |-> done.calls]

\* returns the Result, the system and the scenario's networks as the call
\* leaves them, and the lease calls it made
configure_networking(self, scenario_networks) ==
    LET system_networks == resolve(self.network_names, scenario_networks, self.name, <<>>) IN
    IF ~system_networks.ok
    THEN [result |-> system_networks, system |-> self, networks |-> scenario_networks, calls |-> <<>>]
    ELSE LET appended == self.networks \o system_networks.val
             done == lease_loop(internal_nets(appended, scenario_networks),
                                [networks |-> scenario_networks,
                                 leases   |-> self.leased_network_addresses,
                                 calls    |-> <<>>,
                                 result   |-> Ok("unit")])
         IN [result   |-> done.result,
             system   |-> [self EXCEPT !.networks = appended,
                                       !.leased_network_addresses = done.leases],
             networks |-> done.networks,
             calls    |-> done.calls]

(***************************************************************************)
(* IndentationAwareStringBuilder.  A string is a sequence of characters;   *)
(* the text of a line is kept as one character-like token.                 *)
(***************************************************************************)
Space == [t |-> "space"]
Tab == [t |-> "tab"]
Newline == [t |-> "newline"]

IndentationAwareStringBuilder_new ==
    [indentation_type          |-> "Spaces",
     tab_size                  |-> Some(4),
     current_indentation_level |-> 0,
     buffer                    |-> <<>>]

\* the type set with the width left as it was
with_indentation_type_keeping_width(self, indentation_type) ==
    [self EXCEPT !.indentation_type = indentation_type]

with_indentation_type(self, indentation_type) ==
    [self EXCEPT !.indentation_type = indentation_type,
                 !.tab_size = IF indentation_type = "Spaces" THEN Some(4) ELSE None]

with_tab_size(self, tab_size) ==
    [self EXCEPT !.tab_size = Some(tab_size)]

\* indentation.take(n).collect::<String>()
take(char, n) == [i \in 1..n |-> char]

\* Option::unwrap_or
unwrap_or(opt, default) == IF opt = None THEN default ELSE opt[1]

\* the line inserted at the head of the buffer instead of pushed at its end
add_at_front(self, new_line) ==
    LET current_indentation ==
            IF self.indentation_type = "Spaces"
            THEN take(Space, self.current_indentation_level * unwrap_or(self.tab_size, 4))
            ELSE take(Tab, self.current_indentation_level)
    IN [self EXCEPT !.buffer = <<current_indentation \o new_line>> \o @]

add(self, new_line) ==
    LET current_indentation ==
            IF self.indentation_type = "Spaces"
            THEN take(Space, self.current_indentation_level * unwrap_or(self.tab_size, 4))
            ELSE take(Tab, self.current_indentation_level)
    IN [self EXCEPT !.buffer = Append(@, current_indentation \o new_line)]

\* the argument of take in add: how many indentation characters the line
\* gets.  The level is a usize; a level below zero stands for the value
\* 2^64 + level that the counter holds after wrapping, and a count below
\* zero for the like product, reduced modulo 2^64
indent_count(self) ==
    IF self.indentation_type = "Spaces"
    THEN self.current_indentation_level * unwrap_or(self.tab_size, 4)
    ELSE self.current_indentation_level

increase_indentation(self) ==
    [self EXCEPT !.current_indentation_level = @ + 1]

\* the lines joined with a line break after every line, the last included
RECURSIVE join_with_trailing_newline(_)
join_with_trailing_newline(buffer) ==
    IF buffer = <<>> THEN <<>>
    ELSE buffer[1] \o <<Newline>> \o join_with_trailing_newline(Tail(buffer))

\* buffer.join("\n")
RECURSIVE join(_)
join(buffer) ==
    IF buffer = <<>> THEN <<>>
    ELSE IF Len(buffer) = 1 THEN buffer[1]
    ELSE buffer[1] \o <<Newline>> \o join(Tail(buffer))

build_string(self) == join(self.buffer)

\* the level kept at zero instead of going below it
decrease_indentation_saturating(self) ==
    [self EXCEPT !.current_indentation_level = IF @ = 0 THEN 0 ELSE @ - 1]

\* below zero the unsigned counter underflows: a level of -1 stands for that
\* outcome (a panic in a debug build, usize::MAX in a release build)
decrease_indentation(self) ==
    [self EXCEPT !.current_indentation_level = @ - 1]

(***************************************************************************)
(* Output emission (section 4.5 of the specification): the wired scenario  *)
(* rendered through the builder, one block per system in scenario order.   *)
(***************************************************************************)
Line(kind, args) == <<[t |-> kind, args |-> args]>>

\* which reference to its network the i-th resolved reference of a system is
nth_reference(system, i) ==
    Cardinality({j \in 1..i : system.networks[j] = system.networks[i]})

\* the lines of the i-th resolved reference, appended to the builder
emit_reference(b, system, scenario_networks, i) ==
    LET net == scenario_networks[system.networks[i]]
        n   == nth_reference(system, i)
    IN IF net.network_type = "Internal"
       THEN IF /\ net.name \in DOMAIN system.leased_network_addresses
               /\ n <= Len(system.leased_network_addresses[net.name])
            THEN add(b, Line("private_network",
                             <<system.leased_network_addresses[net.name][n], net.name>>))
            ELSE b
       ELSE add(b, Line("public_network", <<>>))

RECURSIVE emit_references(_, _, _, _)
emit_references(b, system, scenario_networks, i) ==
    IF i > Len(system.networks) THEN b
    ELSE emit_references(emit_reference(b, system, scenario_networks, i),
                         system, scenario_networks, i + 1)

emit_system(b, system, scenario_networks) ==
    LET opened == increase_indentation(add(b, Line("define", <<system.name>>)))
        boxed  == add(opened, Line("box", <<system.base_box>>))
        wired  == emit_references(boxed, system, scenario_networks, 1)
    IN add(decrease_indentation(wired), Line("end", <<>>))

RECURSIVE emit_systems(_, _, _, _)
emit_systems(b, scenario_systems, scenario_networks, i) ==
    IF i > Len(scenario_systems) THEN b
    ELSE emit_systems(emit_system(b, scenario_systems[i], scenario_networks),
                      scenario_systems, scenario_networks, i + 1)

emit_script(scenario_systems, scenario_networks) ==
    LET opened == increase_indentation(add(IndentationAwareStringBuilder_new, Line("configure", <<>>)))
        body   == emit_systems(opened, scenario_systems, scenario_networks, 1)
    IN build_string(add(decrease_indentation(body), Line("end", <<>>)))

(***************************************************************************)
(* The scenario the model runs on: three networks and three systems, the   *)
(* systems' declared network lists drawn from all lists within the bound.  *)
(***************************************************************************)
NetworkToml(name, type, subnet) == [name |-> name, type |-> type, subnet |-> subnet]

ScenarioNetworkTomls ==
    << NetworkToml(TomlStr("LAN"), TomlStr("Internal"), TomlStr(Cidr(192, 168, 0, 1, 24))),
       NetworkToml(TomlStr("TestNet"), TomlStr("Internal"), TomlStr(Cidr(192, 168, 0, 1, 30))),
       NetworkToml(TomlStr("WAN"), TomlStr("Public"), Absent) >>

\* the names a system may declare: the three networks and one that is undefined
DeclaredNames == {"LAN", "TestNet", "WAN", "OtherNet"}

SystemNames == <<"Desktop", "Server", "Test system 3">>
BaseBoxes == <<"Windows 10", "Debian", "Debian">>

NetIds == 1..Len(ScenarioNetworkTomls)
SysIds == 1..Len(SystemNames)

RefLists(n) == UNION {[1..k -> DeclaredNames] : k \in 0..n}

SystemToml(s, refs) ==
    [name     |-> TomlStr(SystemNames[s]),
     networks |-> TomlArray([i \in 1..Len(refs) |-> TomlStr(refs[i])]),
     base_box |-> TomlStr(BaseBoxes[s])]

NoOp == [op |-> "none"]

\* the state Scenario construction leaves: every network and system built
\* from its record, nothing resolved and nothing leased
ScenarioInit ==
    /\ networks = [n \in NetIds |-> Network_from_toml(ScenarioNetworkTomls[n]).val]
    /\ \E d1 \in RefLists(MaxTotalRefs) :
       \E d2 \in RefLists(MaxTotalRefs - Len(d1)) :
       \E d3 \in RefLists(MaxTotalRefs - Len(d1) - Len(d2)) :
          systems = [s \in SysIds |-> System_from_toml(SystemToml(s, <<d1, d2, d3>>[s])).val]
    /\ last = NoOp
    /\ returned = [n \in NetIds |-> EmptyBag]
    /\ log = <<>>
    /\ status = [s \in SysIds |-> "Unwired"]
    /\ output = None

Init ==
    /\ ScenarioInit
    /\ toml = ScenarioNetworkTomls[1]
    /\ built = None
    /\ builder = None

\* the addresses a sequence of lease calls returned, as a bag
RECURSIVE count_returns(_, _, _)
count_returns(calls, n, bag) ==
    IF calls = <<>> THEN bag
    ELSE count_returns(Tail(calls), n,
            IF Head(calls).net = n /\ Head(calls).ret # None
            THEN bag (+) SetToBag({Head(calls).ret[1]})
            ELSE bag)

\* number of configure_networking calls made on system s
WireCalls(s) == Cardinality({i \in 1..Len(log) : log[i] = [op |-> "configure_networking", id |-> s]})

\* number of get_address_lease calls issued directly
DirectCalls == Cardinality({i \in 1..Len(log) : log[i].op = "get_address_lease"})

\* the calls beyond one wiring per system
ExtraCalls ==
    Cardinality({i \in 1..Len(log) :
        \/ log[i].op = "get_address_lease"
        \/ \E j \in 1..(i - 1) : log[j] = log[i]})

\* a direct call networks[n].get_address_lease()
GetAddressLease(n) ==
    /\ ExtraCalls < MaxExtraCalls
    /\ \E lease \in {get_address_lease(networks[n])} :
       /\ networks' = [networks EXCEPT ![n] = lease.net]
       /\ last' = [op |-> "get_address_lease", net |-> n, before |-> networks[n], ret |-> lease.ret]
       /\ returned' = [returned EXCEPT ![n] =
                          IF lease.ret = None THEN @ ELSE @ (+) SetToBag({lease.ret[1]})]
    /\ log' = Append(log, [op |-> "get_address_lease", id |-> n])
    /\ UNCHANGED <<systems, status, output, toml, built, builder>>

\* systems[s].configure_networking(&scenario.networks)
ConfigureNetworking(s) ==
    /\ WireCalls(s) = 0 \/ ExtraCalls < MaxExtraCalls
    /\ \E done \in {configure_networking(systems[s], networks)} :
       /\ networks' = done.networks
       /\ systems' = [systems EXCEPT ![s] = done.system]
       /\ last' = [op |-> "configure_networking", sys |-> s,
                   before |-> [system |-> systems[s], networks |-> networks],
                   result |-> done.result, calls |-> done.calls]
       /\ returned' = [n \in NetIds |-> count_returns(done.calls, n, returned[n])]
       /\ status' = [status EXCEPT ![s] = IF done.result.ok THEN "Wired" ELSE "Failed"]
    /\ log' = Append(log, [op |-> "configure_networking", id |-> s])
    /\ UNCHANGED <<output, toml, built, builder>>

\* the build step's emission, once every system is wired without error
Emit ==
    /\ \A s \in SysIds : status[s] = "Wired"
    /\ output' = Some(emit_script(systems, networks))
    /\ last' = [op |-> "emit"]
    /\ UNCHANGED <<networks, systems, returned, log, status, toml, built, builder>>

Next ==
    \/ \E n \in NetIds : GetAddressLease(n)
    \/ \E s \in SysIds : ConfigureNetworking(s)
    \/ Emit

Spec == Init /\ [][Next]_vars

(***************************************************************************)
(* Network construction on its own: Network::from_toml applied to one      *)
(* record, the record drawn from every combination of field values.        *)
(***************************************************************************)
SampleAddrs ==
    { <<192, 168, 0, 1>>, <<192, 168, 0, 0>>, <<192, 168, 255, 255>>, <<192, 169, 0, 0>>,
      <<10, 0, 0, 0>>, <<10, 255, 255, 255>>, <<11, 0, 0, 0>>,
      <<172, 16, 0, 0>>, <<172, 31, 255, 255>>, <<172, 32, 0, 0>>,
      <<1, 1, 1, 1>>, <<0, 0, 0, 0>>, <<255, 255, 255, 255>> }

PrefixLens == 0..32

SubnetTexts ==
    {Cidr(a[1], a[2], a[3], a[4], p) : a \in SampleAddrs, p \in PrefixLens}
    \cup {Dotted(192, 168, 0, 1), Cidr(192, 168, 0, 1, 33), Cidr(192, 168, 0, 256, 24),
          [octets |-> <<192, 168, 0>>, prefix |-> <<24>>]}

NameValues == {Absent, TomlInt(42), TomlStr("TestNet")}
TypeValues == {Absent, TomlInt(42), TomlStr("Public"), TomlStr("Internal"), TomlStr("NotValid")}
SubnetValues == {Absent, TomlInt(42)} \cup {TomlStr(t) : t \in SubnetTexts}

NetworkTomls == {NetworkToml(n, t, sn) : n \in NameValues, t \in TypeValues, sn \in SubnetValues}

InitNet ==
    /\ toml \in NetworkTomls
    /\ built = None
    /\ builder = None
    /\ networks = <<>>
    /\ systems = <<>>
    /\ last = NoOp
    /\ returned = <<>>
    /\ log = <<>>
    /\ status = <<>>
    /\ output = None

\* Network::from_toml(&toml)
FromToml ==
    /\ built = None
    /\ built' = Some(Network_from_toml(toml))
    /\ last' = [op |-> "from_toml"]
    /\ UNCHANGED <<networks, systems, returned, log, status, output, toml, builder>>

NextNet == FromToml

SpecNet == InitNet /\ [][NextNet]_vars

(***************************************************************************)
(* Scenario::from_toml (section 4.4): all Networks are built in input      *)
(* order, their names checked for uniqueness, then all Systems are built,  *)
(* unwired, and their names checked the same way.  The value returned      *)
(* carries, beside the Result, how many records of each list were handed   *)
(* to Network::from_toml and System::from_toml before it returned.         *)
(***************************************************************************)
ScenarioToml(network_tomls, system_tomls) ==
    [networks |-> TomlArray(network_tomls), systems |-> TomlArray(system_tomls)]

\* .map(from_toml).collect::<Result<Vec<_>, _>>(): the values in order, or
\* the first error; processed counts the records read
RECURSIVE build_networks(_, _)
build_networks(records, acc) ==
    IF records = <<>> THEN [result |-> Ok(acc), processed |-> Len(acc)]
    ELSE LET parsed == Network_from_toml(Head(records)) IN
         IF ~parsed.ok THEN [result |-> parsed, processed |-> Len(acc) + 1]
         ELSE build_networks(Tail(records), Append(acc, parsed.val))

RECURSIVE build_systems(_, _)
build_systems(records, acc) ==
    IF records = <<>> THEN [result |-> Ok(acc), processed |-> Len(acc)]
    ELSE LET parsed == System_from_toml(Head(records)) IN
         IF ~parsed.ok THEN [result |-> parsed, processed |-> Len(acc) + 1]
         ELSE build_systems(Tail(records), Append(acc, parsed.val))

\* the name -> count map, its entries in insertion order
RECURSIVE count_names(_, _)
count_names(names, counts) ==
    IF names = <<>> THEN counts
    ELSE count_names(Tail(names),
            IF \E i \in 1..Len(counts) : counts[i].name = Head(names)
            THEN [i \in 1..Len(counts) |->
                     IF counts[i].name = Head(names)
                     THEN [counts[i] EXCEPT !.count = @ + 1]
                     ELSE counts[i]]
            ELSE Append(counts, [name |-> Head(names), count |-> 1]))

\* the first entry of the map with a count above one
first_duplicate(names) ==
    LET counts == count_names(names, <<>>)
        dups   == {i \in 1..Len(counts) : counts[i].count > 1}
    IN IF dups = {} THEN None
       ELSE Some(counts[CHOOSE i \in dups : \A j \in dups : i <= j].name)

\* the Uniqueness-Violation error naming the kind of entity and the name
UniquenessViolation(entity, name) == <<"Uniqueness-Violation", entity, name>>

Scenario_from_toml(scenario_toml) ==
    LET networks_built == build_networks(scenario_toml.networks.v, <<>>) IN
    IF ~networks_built.result.ok
    THEN [result |-> networks_built.result,
          processed |-> [networks |-> networks_built.processed, systems |-> 0]]
    ELSE LET network_names == [i \in 1..Len(networks_built.result.val) |->
                                  networks_built.result.val[i].name] IN
    IF first_duplicate(network_names) # None
    THEN [result |-> Err(UniquenessViolation("network", first_duplicate(network_names)[1])),
          processed |-> [networks |-> networks_built.processed, systems |-> 0]]
    ELSE LET systems_built == build_systems(scenario_toml.systems.v, <<>>) IN
    IF ~systems_built.result.ok
    THEN [result |-> systems_built.result,
          processed |-> [networks |-> networks_built.processed,
                         systems |-> systems_built.processed]]
    ELSE LET system_names == [i \in 1..Len(systems_built.result.val) |->
                                 systems_built.result.val[i].name] IN
    IF first_duplicate(system_names) # None
    THEN [result |-> Err(UniquenessViolation("system", first_duplicate(system_names)[1])),
          processed |-> [networks |-> networks_built.processed,
                         systems |-> systems_built.processed]]
    ELSE [result |-> Ok([networks |-> networks_built.result.val,
                         systems  |-> systems_built.result.val]),
          processed |-> [networks |-> networks_built.processed,
                         systems |-> systems_built.processed]]

(***************************************************************************)
(* Scenario construction on its own, followed by the caller's wiring of    *)
(* each system: the scenario record is drawn from every list of network    *)
(* records and every list of system records up to the bounds.              *)
(***************************************************************************)
ScenNetworkTomls ==
    { NetworkToml(TomlStr("LAN"), TomlStr("Internal"), TomlStr(Cidr(192, 168, 0, 1, 24))),
      NetworkToml(TomlStr("LAN"), TomlStr("Public"), Absent),
      NetworkToml(TomlStr("WAN"), TomlStr("Public"), Absent),
      NetworkToml(TomlStr("TestNet"), TomlStr("Internal"), TomlStr(Cidr(192, 168, 0, 1, 31))) }

ScenSystemTomls ==
    { [name |-> TomlStr("Desktop"), networks |-> TomlArray(<<TomlStr("LAN")>>),
       base_box |-> TomlStr("Windows 10")],
      [name |-> TomlStr("Desktop"), networks |-> TomlArray(<<TomlStr("OtherNet")>>),
       base_box |-> TomlStr("Debian")],
      [name |-> TomlStr("Server"), networks |-> TomlArray(<<TomlStr("LAN"), TomlStr("WAN")>>),
       base_box |-> TomlStr("Debian")],
      [name |-> TomlStr("Test system 3"), networks |-> TomlArray(<<TomlStr("LAN")>>),
       base_box |-> Absent] }

ListsOf(records, n) == UNION {[1..k -> records] : k \in 0..n}

ScenarioTomls ==
    { ScenarioToml(n, s) : n \in ListsOf(ScenNetworkTomls, MaxNetworks),
                           s \in ListsOf(ScenSystemTomls, MaxSystems) }

InitScen ==
    /\ toml \in ScenarioTomls
    /\ built = None
    /\ builder = None
    /\ networks = <<>>
    /\ systems = <<>>
    /\ last = NoOp
    /\ returned = <<>>
    /\ log = <<>>
    /\ status = <<>>
    /\ output = None

\* let scenario = Scenario::from_toml(&toml)
FromTomlScenario ==
    /\ built = None
    /\ \E done \in {Scenario_from_toml(toml)} :
       /\ built' = Some(done)
       /\ networks' = IF done.result.ok THEN done.result.val.networks ELSE <<>>
       /\ systems' = IF done.result.ok THEN done.result.val.systems ELSE <<>>
       /\ status' = IF done.result.ok
                    THEN [s \in 1..Len(done.result.val.systems) |-> "Unwired"]
                    ELSE <<>>
    /\ last' = [op |-> "Scenario::from_toml"]
    /\ UNCHANGED <<returned, log, output, toml, builder>>

\* the caller's wiring step: scenario.systems[s].configure_networking(&scenario.networks),
\* once for every system of the built scenario
WireBuilt(s) ==
    /\ built # None
    /\ status[s] = "Unwired"
    /\ \E done \in {configure_networking(systems[s], networks)} :
       /\ networks' = done.networks
       /\ systems' = [systems EXCEPT ![s] = done.system]
       /\ last' = [op |-> "configure_networking", sys |-> s,
                   before |-> [system |-> systems[s], networks |-> networks],
                   result |-> done.result, calls |-> done.calls]
       /\ status' = [status EXCEPT ![s] = IF done.result.ok THEN "Wired" ELSE "Failed"]
    /\ log' = Append(log, [op |-> "configure_networking", id |-> s])
    /\ UNCHANGED <<returned, output, toml, built, builder>>

NextScen ==
    \/ FromTomlScenario
    \/ \E s \in DOMAIN status : WireBuilt(s)

SpecScen == InitScen /\ [][NextScen]_vars

(***************************************************************************)
(* The IndentationAwareStringBuilder on its own, under any sequence of its *)
(* calls.  builder holds the object, whether the build checks integer      *)
(* overflow (as a debug build does; a release build wraps), and whether a  *)
(* call has panicked; log holds the calls made, in order.                  *)
(***************************************************************************)
IndentationTypes == {"Spaces", "Tabs"}
TabSizes == {0, 2, 8}
Texts == {<<>>, Line("text", <<>>)}

Call(op, arg) == [op |-> op, arg |-> arg]

InitBuilder ==
    /\ \E checks \in BOOLEAN :
          builder = [self |-> IndentationAwareStringBuilder_new,
                     overflow_checks |-> checks,
                     panicked |-> FALSE]
    /\ output = None
    /\ log = <<>>
    /\ last = NoOp
    /\ networks = <<>>
    /\ systems = <<>>
    /\ returned = <<>>
    /\ status = <<>>
    /\ toml = <<>>
    /\ built = None

\* the object can take another call
Callable ==
    /\ ~builder.panicked
    /\ output = None
    /\ Len(log) < MaxBuilderCalls

WithIndentationType(t) ==
    /\ Callable
    /\ builder' = [builder EXCEPT !.self = with_indentation_type(@, t)]
    /\ log' = Append(log, Call("with_indentation_type", t))
    /\ UNCHANGED <<networks, systems, last, returned, status, output, toml, built>>

WithTabSize(n) ==
    /\ Callable
    /\ builder' = [builder EXCEPT !.self = with_tab_size(@, n)]
    /\ log' = Append(log, Call("with_tab_size", n))
    /\ UNCHANGED <<networks, systems, last, returned, status, output, toml, built>>

\* add(new_line): collecting a count of characters that wrapped around
\* (about 2^64 of them) cannot be allocated and ends the process
Add(new_line) ==
    /\ Callable
    /\ builder' = IF indent_count(builder.self) < 0
                  THEN [builder EXCEPT !.panicked = TRUE]
                  ELSE [builder EXCEPT !.self = add(@, new_line)]
    /\ log' = Append(log, Call("add", new_line))
    /\ UNCHANGED <<networks, systems, last, returned, status, output, toml, built>>

IncreaseIndentation ==
    /\ Callable
    /\ builder' = [builder EXCEPT !.self = increase_indentation(@)]
    /\ log' = Append(log, Call("increase_indentation", <<>>))
    /\ UNCHANGED <<networks, systems, last, returned, status, output, toml, built>>

\* decrease_indentation(): at level 0 the subtraction overflows, which
\* panics in a build that checks overflow and wraps in one that does not
DecreaseIndentation ==
    /\ Callable
    /\ builder' = IF builder.self.current_indentation_level = 0 /\ builder.overflow_checks
                  THEN [builder EXCEPT !.panicked = TRUE]
                  ELSE [builder EXCEPT !.self = decrease_indentation(@)]
    /\ log' = Append(log, Call("decrease_indentation", <<>>))
    /\ UNCHANGED <<networks, systems, last, returned, status, output, toml, built>>

\* build_string(self) consumes the builder
BuildString ==
    /\ ~builder.panicked
    /\ output = None
    /\ output' = Some(build_string(builder.self))
    /\ UNCHANGED <<networks, systems, last, returned, log, status, toml, built, builder>>

NextBuilder ==
    \/ \E t \in IndentationTypes : WithIndentationType(t)
    \/ \E n \in TabSizes : WithTabSize(n)
    \/ \E new_line \in Texts : Add(new_line)
    \/ IncreaseIndentation
    \/ DecreaseIndentation
    \/ BuildString

SpecBuilder == InitBuilder /\ [][NextBuilder]_vars

(***************************************************************************)
(* Wiring against any list of networks: configure_networking takes the     *)
(* list as a parameter, so it may hold networks of one name and names that *)
(* differ in case only.  One system is wired against a list drawn from     *)
(* every sequence of the networks below.                                   *)
(***************************************************************************)
MaxListed == 3
MaxDeclared == 2

ListedNetworkTomls ==
    { NetworkToml(TomlStr("LAN"), TomlStr("Internal"), TomlStr(Cidr(192, 168, 0, 1, 24))),
      NetworkToml(TomlStr("LAN"), TomlStr("Internal"), TomlStr(Cidr(10, 0, 0, 0, 24))),
      NetworkToml(TomlStr("lan"), TomlStr("Internal"), TomlStr(Cidr(172, 16, 0, 0, 24))),
      NetworkToml(TomlStr("LAN"), TomlStr("Public"), Absent) }

ListedNames == {"LAN", "lan", "Lan"}

InitResolve ==
    /\ \E listed \in ListsOf(ListedNetworkTomls, MaxListed) :
          networks = [n \in 1..Len(listed) |-> Network_from_toml(listed[n]).val]
    /\ \E declared \in ListsOf(ListedNames, MaxDeclared) :
          systems = << System_from_toml(SystemToml(1, declared)).val >>
    /\ status = <<"Unwired">>
    /\ last = NoOp
    /\ returned = <<>>
    /\ log = <<>>
    /\ output = None
    /\ toml = <<>>
    /\ built = None
    /\ builder = None

\* systems[s].configure_networking(&networks)
Resolve(s) ==
    /\ status[s] = "Unwired"
    /\ \E done \in {configure_networking(systems[s], networks)} :
       /\ networks' = done.networks
       /\ systems' = [systems EXCEPT ![s] = done.system]
       /\ last' = [op |-> "configure_networking", sys |-> s,
                   before |-> [system |-> systems[s], networks |-> networks],
                   result |-> done.result, calls |-> done.calls]
       /\ status' = [status EXCEPT ![s] = IF done.result.ok THEN "Wired" ELSE "Failed"]
    /\ log' = Append(log, [op |-> "configure_networking", id |-> s])
    /\ UNCHANGED <<returned, output, toml, built, builder>>

NextResolve == \E s \in DOMAIN systems : Resolve(s)

SpecResolve == InitResolve /\ [][NextResolve]_vars

(***************************************************************************)
(* Scenario::parse_scenario (scenario.rs): the scenario name, the network  *)
(* records and the system records are read in this order from the          *)
(* configuration, the closures of the two maps being run by collect()      *)
(* record after record up to the first error.                              *)
(***************************************************************************)
MaxRecords == 2

TomlTable(t) == [kind |-> "table", v |-> t]

\* the closure over a network record: the type is matched before the subnet
\* is read, its error raised by network_type? once the subnet has parsed
parse_network(network_toml) ==
    IF get(network_toml, "name") = None
    THEN Err(<<"Could not read network name">>)
    ELSE IF as_str(get(network_toml, "name")[1]) = None
    THEN Err(<<"Could not read network name as a string">>)
    ELSE LET network_name == as_str(get(network_toml, "name")[1])[1] IN
    IF get(network_toml, "type") = None
    THEN Err(<<"Could not read network type for network: ", network_name>>)
    ELSE IF as_str(get(network_toml, "type")[1]) = None
    THEN Err(<<"Could not read network type as a string for network: ", network_name>>)
    ELSE LET network_type_unparsed == as_str(get(network_toml, "type")[1])[1]
             network_type ==
                 IF network_type_unparsed \in {"Public", "Internal"}
                 THEN Ok(network_type_unparsed)
                 ELSE Err(<<"Could not parse network type as a valid type for network: ",
                            network_name, ". Valid types are: Public, Internal">>)
         IN
    IF get(network_toml, "subnet") = None
    THEN Err(<<"Could not read subnet for network: ", network_name>>)
    ELSE IF as_str(get(network_toml, "subnet")[1]) = None
    THEN Err(<<"Could not read subnet as string for network: ", network_name>>)
    ELSE LET subnet == parse(as_str(get(network_toml, "subnet")[1])[1]) IN
    IF ~subnet.ok
    THEN Err(<<"Could not parse subnet as a valid CIDR range for network: ", network_name>>)
    ELSE IF ~network_type.ok THEN network_type
    ELSE Ok([name |-> network_name, network_type |-> network_type.val, subnet |-> subnet.val])

\* the collection that goes through every record and keeps the last error
RECURSIVE collect_networks_keeping_last_error(_, _)
collect_networks_keeping_last_error(records, acc) ==
    IF records = <<>> THEN acc
    ELSE LET parsed == parse_network(Head(records)) IN
         collect_networks_keeping_last_error(Tail(records),
            IF ~parsed.ok THEN parsed
            ELSE IF acc.ok THEN Ok(Append(acc.val, parsed.val))
            ELSE acc)

\* .into_iter().map(|network_toml| ..).collect::<Result<Vec<Network>, _>>():
\* the networks in input order, or the error of the first record that fails
RECURSIVE collect_networks(_, _)
collect_networks(records, acc) ==
    IF records = <<>> THEN acc
    ELSE LET parsed == parse_network(Head(records)) IN
         IF ~parsed.ok THEN parsed
         ELSE collect_networks(Tail(records), Ok(Append(acc.val, parsed.val)))

\* the inner closure over the entries of a system's networks array: each
\* entry read as a string and looked up among the scenario's networks
RECURSIVE system_networks(_, _, _, _)
system_networks(array, scenario_networks, system_name, acc) ==
    IF array = <<>> THEN Ok(acc)
    ELSE IF as_str(Head(array)) = None
    THEN Err(<<"Could not parse networks for system: ", system_name>>)
    ELSE IF find(scenario_networks, as_str(Head(array))[1]) = None
    THEN Err(<<"System \"", system_name, "\" is configured to use network \"",
               as_str(Head(array))[1], "\" but no network with that name could be found">>)
    ELSE system_networks(Tail(array), scenario_networks, system_name,
                         Append(acc, find(scenario_networks, as_str(Head(array))[1])[1]))

\* the closure over a system record
parse_system(system_toml, scenario_networks) ==
    IF get(system_toml, "name") = None
    THEN Err(<<"Could not read name of system">>)
    ELSE IF as_str(get(system_toml, "name")[1]) = None
    THEN Err(<<"Could not read name of system as a string">>)
    ELSE LET name == as_str(get(system_toml, "name")[1])[1] IN
    IF get(system_toml, "networks") = None
    THEN Err(<<"Could not read networks for system: ", name>>)
    ELSE IF as_array(get(system_toml, "networks")[1]) = None
    THEN Err(<<"Could not read networks for system: ", name>>)
    ELSE LET resolved == system_networks(as_array(get(system_toml, "networks")[1])[1],
                                         scenario_networks, name, <<>>) IN
    IF ~resolved.ok THEN resolved
    ELSE IF get(system_toml, "base_box") = None
    THEN Err(<<"Could not read base_box for system: ", name>>)
    ELSE IF as_str(get(system_toml, "base_box")[1]) = None
    THEN Err(<<"Could not read base_box as a string for system: ", name>>)
    ELSE Ok([name |-> name, networks |-> resolved.val,
             base_box |-> as_str(get(system_toml, "base_box")[1])[1]])

\* .into_iter().map(|system_toml| ..).collect::<Result<Vec<System>, _>>():
\* the systems in input order, or the error of the first record that fails
RECURSIVE collect_systems(_, _, _)
collect_systems(records, scenario_networks, acc) ==
    IF records = <<>> THEN acc
    ELSE LET parsed == parse_system(Head(records), scenario_networks) IN
         IF ~parsed.ok THEN parsed
         ELSE collect_systems(Tail(records), scenario_networks,
                              Ok(Append(acc.val, parsed.val)))

\* Value::get on a value that may be no table
get_in(value, key) == IF value.kind = "table" THEN get(value.v, key) ELSE None

parse_scenario(scenario_toml) ==
    IF get(scenario_toml, "scenario") = None
    THEN Err(<<"Could not get scenario from configuration">>)
    ELSE IF get_in(get(scenario_toml, "scenario")[1], "name") = None
    THEN Err(<<"Could not read name of scenario from configuration">>)
    ELSE IF as_str(get_in(get(scenario_toml, "scenario")[1], "name")[1]) = None
    THEN Err(<<"Could not read name of scenario as a string">>)
    ELSE LET scenario_name == as_str(get_in(get(scenario_toml, "scenario")[1], "name")[1])[1] IN
    IF get(scenario_toml, "networks") = None
    THEN Err(<<"Could not read networks from configuration">>)
    ELSE IF as_array(get(scenario_toml, "networks")[1]) = None
    THEN Err(<<"Could not read networks from configuration">>)
    ELSE LET scenario_networks ==
                 collect_networks(as_array(get(scenario_toml, "networks")[1])[1], Ok(<<>>)) IN
    IF ~scenario_networks.ok THEN scenario_networks
    ELSE IF get(scenario_toml, "systems") = None
    THEN Err(<<"Could not get systems from configuration">>)
    ELSE IF as_array(get(scenario_toml, "systems")[1]) = None
    THEN Err(<<"Could not get systems from configuration">>)
    ELSE LET scenario_systems ==
                 collect_systems(as_array(get(scenario_toml, "systems")[1])[1],
                                 scenario_networks.val, Ok(<<>>)) IN
    IF ~scenario_systems.ok THEN scenario_systems
    ELSE Ok([name |-> scenario_name, networks |-> scenario_networks.val,
             systems |-> scenario_systems.val])

(***************************************************************************)
(* parse_scenario on its own: the configuration is drawn from every        *)
(* combination of a scenario block, a networks value and a systems value.  *)
(***************************************************************************)
ScenarioBlocks ==
    { Absent, TomlTable([name |-> Absent]), TomlTable([name |-> TomlInt(42)]),
      TomlTable([name |-> TomlStr("Test scenario")]) }

ParseNetworkTomls ==
    { NetworkToml(TomlStr("LAN"), TomlStr("Internal"), TomlStr(Cidr(192, 168, 0, 1, 24))),
      NetworkToml(TomlStr("WAN"), TomlStr("Public"), Absent),
      NetworkToml(TomlStr("TestNet"), TomlStr("NotValid"), Absent),
      NetworkToml(TomlStr("TestNet"), TomlStr("NotValid"), TomlStr(Cidr(192, 168, 0, 1, 24))),
      NetworkToml(TomlStr("DMZ"), TomlStr("Internal"), TomlStr(Cidr(1, 1, 1, 1, 24))),
      NetworkToml(Absent, TomlStr("Internal"), TomlStr(Cidr(192, 168, 0, 1, 24))) }

ParseSystemTomls ==
    { [name |-> TomlStr("Desktop"), networks |-> TomlArray(<<TomlStr("LAN")>>),
       base_box |-> TomlStr("Windows 10")],
      [name |-> TomlStr("Server"), networks |-> TomlArray(<<TomlStr("OtherNet")>>),
       base_box |-> TomlStr("Debian")],
      [name |-> Absent, networks |-> TomlArray(<<>>), base_box |-> TomlStr("Debian")] }

Configurations ==
    { [scenario |-> b, networks |-> n, systems |-> s] :
        b \in ScenarioBlocks,
        n \in {Absent, TomlInt(42)}
                 \cup {TomlArray(l) : l \in ListsOf(ParseNetworkTomls, MaxRecords)},
        s \in {Absent, TomlInt(42)}
                 \cup {TomlArray(l) : l \in ListsOf(ParseSystemTomls, MaxRecords)} }

InitParse ==
    /\ toml \in Configurations
    /\ built = None
    /\ builder = None
    /\ networks = <<>>
    /\ systems = <<>>
    /\ last = NoOp
    /\ returned = <<>>
    /\ log = <<>>
    /\ status = <<>>
    /\ output = None

\* Scenario::parse_scenario(&toml)
ParseScenario ==
    /\ built = None
    /\ built' = Some(parse_scenario(toml))
    /\ last' = [op |-> "parse_scenario"]
    /\ UNCHANGED <<networks, systems, returned, log, status, output, toml, builder>>

NextParse == ParseScenario

SpecParse == InitParse /\ [][NextParse]_vars

(***************************************************************************)
(* System construction on its own: System::from_toml applied to one        *)
(* record, the record drawn from every combination of field values.        *)
(***************************************************************************)
MaxEntries == 3

SystemNameValues == {Absent, TomlInt(42), TomlStr("Desktop"), TomlStr("Server")}
EntryValues == {TomlStr("LAN"), TomlStr("WAN"), TomlInt(42)}
NetworksValues ==
    {Absent, TomlStr("LAN")} \cup {TomlArray(l) : l \in ListsOf(EntryValues, MaxEntries)}
BaseBoxValues == {Absent, TomlInt(42), TomlStr("Debian")}

SystemTomls ==
    { [name |-> n, networks |-> r, base_box |-> b] :
        n \in SystemNameValues, r \in NetworksValues, b \in BaseBoxValues }

InitSys ==
    /\ toml \in SystemTomls
    /\ built = None
    /\ builder = None
    /\ networks = <<>>
    /\ systems = <<>>
    /\ last = NoOp
    /\ returned = <<>>
    /\ log = <<>>
    /\ status = <<>>
    /\ output = None

\* System::from_toml(&toml)
FromTomlSystem ==
    /\ built = None
    /\ built' = Some(System_from_toml(toml))
    /\ last' = [op |-> "System::from_toml"]
    /\ UNCHANGED <<networks, systems, returned, log, status, output, toml, builder>>

NextSys == FromTomlSystem

SpecSys == InitSys /\ [][NextSys]_vars

(***************************************************************************)
(* Vocabulary of the properties.                                           *)
(***************************************************************************)
\* the usable host addresses of a subnet: its addresses without the network
\* and the broadcast address (for subnets inside one /16)
UsableHosts(subnet) ==
    {<<network(subnet)[1], lo>> : lo \in network(subnet)[2]..broadcast(subnet)[2]}
        \ {network(subnet), broadcast(subnet)}

\* how many they are
UsableCount(subnet) == broadcast(subnet)[2] - network(subnet)[2] - 1

\* the usable host addresses of a subnet that are lower than addr
UsableBelow(subnet, addr) ==
    {<<network(subnet)[1], lo>> : lo \in (network(subnet)[2] + 1)..(addr[2] - 1)}

\* every usable host address of the subnet is in the lease set
Exhausted(subnet, allocated) ==
    /\ Cardinality(allocated) >= UsableCount(subnet)
    /\ UsableHosts(subnet) \subseteq allocated

\* the addresses system s holds under a network name
LeaseList(system, name) ==
    IF name \in DOMAIN system.leased_network_addresses
    THEN system.leased_network_addresses[name]
    ELSE <<>>

LeaseListOf(s, name) == LeaseList(systems[s], name)

\* the lease lists all systems hold under a network name, one after another
AllLeases(name) ==
    LeaseListOf(1, name) \o LeaseListOf(2, name) \o LeaseListOf(3, name)

\* the lease calls the last operation made, in order
LastCalls ==
    IF last.op = "get_address_lease"
    THEN << [net |-> last.net, before |-> last.before.allocated_hosts,
             after |-> networks[last.net].allocated_hosts, ret |-> last.ret] >>
    ELSE IF last.op = "configure_networking" THEN last.calls
    ELSE <<>>

IsInternal(n) == networks[n].network_type = "Internal"

\* the last operation was the first wiring of its system
FirstWiring ==
    /\ last.op = "configure_networking"
    /\ WireCalls(last.sys) = 1

\* how often x occurs among the first i elements of seq
Occurrences(seq, x, i) == Cardinality({j \in 1..i : seq[j] = x})

\* C1: on one Internal network no two successful lease calls, whether
\* issued directly or by the wiring of any system, return the same address,
\* so no address occurs twice among the systems' lease lists of the network.
C1_NoAddressLeasedTwice ==
    \A n \in NetIds :
        /\ \A a \in BagToSet(returned[n]) : CopiesIn(a, returned[n]) = 1
        /\ LET all == AllLeases(networks[n].name) IN
           \A i, j \in 1..Len(all) : i # j => all[i] # all[j]

\* one network leased to directly, by two systems, and twice by one of them
C1_Witness ==
    /\ DirectCalls = 1
    /\ Cardinality(BagToSet(returned[1])) = 4
    /\ \E s1, s2 \in SysIds :
          /\ s1 # s2
          /\ Len(LeaseList(systems[s1], "LAN")) = 2
          /\ Len(LeaseList(systems[s2], "LAN")) = 1

\* C2: with N usable host addresses a lease call fails exactly when all N
\* are in the lease set, that is exactly from the (N+1)-th request on, and a
\* failed call leaves the lease set as it was.
C2_FailsIffExhausted ==
    /\ \A i \in 1..Len(LastCalls) :
          LET c == LastCalls[i] IN
          IsInternal(c.net) =>
              LET subnet == networks[c.net].subnet[1] IN
              /\ (c.ret = None) <=> Exhausted(subnet, c.before[1])
              /\ (c.ret = None) <=> (Cardinality(c.before[1]) >= UsableCount(subnet))
              /\ (c.ret = None) => (c.after = c.before)
    /\ \A n \in NetIds :
          IsInternal(n) =>
              /\ BagCardinality(returned[n]) = Cardinality(networks[n].allocated_hosts[1])
              /\ BagCardinality(returned[n]) <= UsableCount(networks[n].subnet[1])
    /\ (last.op = "get_address_lease" /\ last.ret = None) => networks[last.net] = last.before

\* a direct request on the exhausted /30 network failed
C2_Witness ==
    /\ last.op = "get_address_lease"
    /\ last.net = 2
    /\ last.ret = None
    /\ Cardinality(last.before.allocated_hosts[1]) = 2

\* C3: a successful lease call returns the lowest usable host address that
\* is not in the lease set when the call is made, and the address is in the
\* lease set, which is otherwise unchanged, when the call returns.
C3_LowestFreeAddress ==
    \A i \in 1..Len(LastCalls) :
        LET c == LastCalls[i] IN
        (IsInternal(c.net) /\ c.ret # None) =>
            LET subnet == networks[c.net].subnet[1] IN
            /\ contains_addr(subnet, c.ret[1])
            /\ c.ret[1] \notin {network(subnet), broadcast(subnet)}
            /\ c.ret[1] \notin c.before[1]
            /\ UsableBelow(subnet, c.ret[1]) \subseteq c.before[1]
            /\ c.after[1] = c.before[1] \cup {c.ret[1]}
            /\ c.ret[1] \in networks[c.net].allocated_hosts[1]

\* a direct call on a network with leases already made returned an address
C3_Witness ==
    /\ last.op = "get_address_lease"
    /\ last.ret # None
    /\ Cardinality(last.before.allocated_hosts[1]) >= 2

\* C4: the first wiring of a system that declares k references to one
\* Internal network, when it succeeds, leaves exactly k pairwise distinct
\* addresses in the system's lease list for that network, the N-th of them
\* being the address leased for the N-th reference to the network.
C4_KReferencesKAddresses ==
    (FirstWiring /\ last.result.ok) =>
        LET system   == systems[last.sys]
            declared == system.network_names
            internal == SelectSeq(declared, LAMBDA name : IsInternal(find(networks, name)[1]))
        IN
        /\ Len(last.calls) = Len(internal)
        /\ \A j \in 1..Len(internal) :
              /\ last.calls[j].net = find(networks, internal[j])[1]
              /\ LeaseList(system, internal[j])[Occurrences(internal, internal[j], j)]
                    = last.calls[j].ret[1]
        /\ \A n \in NetIds :
              IsInternal(n) =>
                  LET list == LeaseList(system, networks[n].name) IN
                  /\ Len(list) = Occurrences(declared, networks[n].name, Len(declared))
                  /\ \A a, b \in 1..Len(list) : a # b => list[a] # list[b]

\* a system wired with two references to one Internal network and a
\* reference to another network between them
C4_Witness ==
    /\ FirstWiring
    /\ last.result.ok
    /\ LET declared == systems[last.sys].network_names IN
       /\ Len(declared) = 3
       /\ declared[1] = declared[3]
       /\ declared[1] # declared[2]
       /\ declared[1] \in {"LAN", "TestNet"}
       /\ Len(LeaseList(systems[last.sys], declared[1])) = 2

\* the call log is the first k systems wired once each, in declared order
DeclaredOrder(k) ==
    log = [i \in 1..k |-> [op |-> "configure_networking", id |-> i]]

\* the text has a line of the given kind and arguments at position i
LineAt(text, i, kind, args) ==
    /\ text[i].t = kind
    /\ text[i].args = args

\* position i opens the block of a system and position j is a line of that block
InBlock(text, i, j) ==
    /\ i < j
    /\ \A m \in (i + 1)..(j - 1) : text[m].t \notin {"define", "end"}

UnresolvedError(system_name, network_name) ==
    <<"System \"", system_name, "\" is configured to use network \"", network_name,
      "\" but no network with that name could be found">>

CapacityError(network_name) ==
    <<"Subnet for network \"", network_name,
      "\" does not have enough available addresses for all systems configured to use it.">>

\* the positions of a declared list whose name is no network's name
Undefined(declared) ==
    {i \in 1..Len(declared) : \A n \in NetIds : networks[n].name # declared[i]}

DesktopServerOnLAN ==
    /\ systems[1].name = "Desktop" /\ systems[1].network_names = <<"LAN">>
    /\ systems[2].name = "Server" /\ systems[2].network_names = <<"LAN">>
    /\ systems[3].network_names = <<>>
    /\ networks[1].name = "LAN"
    /\ networks[1].subnet = Some([addr |-> Ip(192, 168, 0, 1), prefix |-> 24])

\* C5: with "Desktop" and "Server" both declaring "LAN" = 192.168.0.1/24
\* and the systems wired in declared order, "Desktop" holds 192.168.0.1 and
\* "Server" 192.168.0.2, and the script has the "Desktop" block binding
\* 192.168.0.1 on "LAN" before the "Server" block binding 192.168.0.2.
C5_DesktopThenServer ==
    (DesktopServerOnLAN /\ (DeclaredOrder(2) \/ DeclaredOrder(3))) =>
        /\ systems[1].leased_network_addresses = [k \in {"LAN"} |-> <<Ip(192, 168, 0, 1)>>]
        /\ systems[2].leased_network_addresses = [k \in {"LAN"} |-> <<Ip(192, 168, 0, 2)>>]
        /\ output # None =>
              \E i, j, k, l \in 1..Len(output[1]) :
                  /\ LineAt(output[1], i, "define", <<"Desktop">>)
                  /\ LineAt(output[1], j, "private_network", <<Ip(192, 168, 0, 1), "LAN">>)
                  /\ InBlock(output[1], i, j)
                  /\ j < k
                  /\ LineAt(output[1], k, "define", <<"Server">>)
                  /\ LineAt(output[1], l, "private_network", <<Ip(192, 168, 0, 2), "LAN">>)
                  /\ InBlock(output[1], k, l)

\* that scenario wired in declared order and emitted
C5_Witness ==
    /\ DesktopServerOnLAN
    /\ DeclaredOrder(3)
    /\ output # None

\* C6: wiring a system that declares a name no network has fails with the
\* error naming the system and that name (and only such a wiring fails with
\* it), and no script is emitted for a scenario with such a system.
C6_UnresolvedReference ==
    /\ last.op = "configure_networking" =>
          LET self == last.before.system IN
          IF Undefined(self.network_names) # {}
          THEN /\ ~last.result.ok
               /\ \E i \in Undefined(self.network_names) :
                     last.result.err = UnresolvedError(self.name, self.network_names[i])
               /\ status[last.sys] = "Failed"
          ELSE last.result.ok \/ last.result.err[1] # "System \""
    /\ (\E s \in SysIds : Undefined(systems[s].network_names) # {}) => output = None

\* a system declaring a defined and an undefined name failed to wire after
\* another system was wired
C6_Witness ==
    /\ last.op = "configure_networking"
    /\ ~last.result.ok
    /\ last.result.err = UnresolvedError(systems[last.sys].name, "OtherNet")
    /\ Len(systems[last.sys].network_names) = 2
    /\ systems[last.sys].network_names[1] = "LAN"
    /\ \E s \in SysIds : status[s] = "Wired"
    /\ output = None

ThreeOnTestNet ==
    /\ \A s \in SysIds : systems[s].network_names = <<"TestNet">>
    /\ Len(log) = 3
    /\ \A i \in 1..3 : log[i].op = "configure_networking"
    /\ {log[i].id : i \in 1..3} = SysIds

\* C7: a wiring that asks for a lease on an Internal network whose usable
\* hosts are all leased fails with the error naming that network; on the /30
\* network the first two single-reference systems wire and the third fails so.
C7_CapacityExhausted ==
    /\ last.op = "configure_networking" =>
          \A i \in 1..Len(last.calls) :
              LET c == last.calls[i] IN
              Exhausted(networks[c.net].subnet[1], c.before[1]) =>
                  /\ ~last.result.ok
                  /\ last.result.err = CapacityError(networks[c.net].name)
                  /\ status[last.sys] = "Failed"
    /\ ThreeOnTestNet =>
          /\ status[log[1].id] = "Wired"
          /\ status[log[2].id] = "Wired"
          /\ status[log[3].id] = "Failed"
          /\ last.result = Err(CapacityError("TestNet"))

\* three systems on the /30 network, each wired once
C7_Witness ==
    /\ ThreeOnTestNet
    /\ last.op = "configure_networking"
    /\ ~last.result.ok

\* C8: a Public network never leases: a lease call on it returns nothing
\* and changes nothing; a wiring resolves a Public reference into the
\* system's network list without a lease call or a lease map entry for it,
\* and the wiring of a system with only Public references succeeds.
C8_PublicNeverLeases ==
    /\ \A n \in NetIds :
          ~IsInternal(n) =>
              /\ networks[n].allocated_hosts = None
              /\ returned[n] = EmptyBag
              /\ \A s \in SysIds : networks[n].name \notin DOMAIN systems[s].leased_network_addresses
    /\ (last.op = "get_address_lease" /\ ~IsInternal(last.net)) =>
          /\ last.ret = None
          /\ networks[last.net] = last.before
    /\ last.op = "configure_networking" =>
          LET self     == last.before.system
              declared == self.network_names
          IN
          /\ \A i \in 1..Len(last.calls) : IsInternal(last.calls[i].net)
          /\ last.result.ok =>
                /\ Len(systems[last.sys].networks) = Len(self.networks) + Len(declared)
                /\ \A i \in 1..Len(declared) :
                      networks[systems[last.sys].networks[Len(self.networks) + i]].name = declared[i]
          /\ (\A i \in 1..Len(declared) :
                 \E n \in NetIds : networks[n].name = declared[i] /\ ~IsInternal(n)) =>
                /\ last.result.ok
                /\ (self.networks = <<>> =>
                       systems[last.sys].leased_network_addresses = self.leased_network_addresses)

\* a system declaring the Public network twice was wired after a direct
\* lease call on the Public network
C8_Witness ==
    /\ Len(log) = 2
    /\ log[1] = [op |-> "get_address_lease", id |-> 3]
    /\ last.op = "configure_networking"
    /\ last.result.ok
    /\ systems[last.sys].network_names = <<"WAN", "WAN">>
    /\ systems[last.sys].networks = <<3, 3>>
    /\ systems[last.sys].leased_network_addresses = <<>>

\* the addresses the successful calls among calls returned on network n, in order
RetsOn(calls, n) ==
    LET made == SelectSeq(calls, LAMBDA c : c.net = n /\ c.ret # None) IN
    [i \in 1..Len(made) |-> made[i].ret[1]]

\* C17 as stated: after a failed wiring the system's lease map and every
\* network's lease set are as they were before the call.
C17_AsStated ==
    (last.op = "configure_networking" /\ ~last.result.ok) =>
        /\ systems[last.sys].leased_network_addresses =
              last.before.system.leased_network_addresses
        /\ \A n \in NetIds :
              networks[n].allocated_hosts = last.before.networks[n].allocated_hosts

\* C17 amended: a wiring that fails on an unresolved reference makes no
\* lease call and leaves the system and every network as they were; a wiring
\* that fails on an exhausted pool keeps the leases it made for the Internal
\* references ahead of the failing one, in the system's lease map and in the
\* networks' lease sets, and makes none for the failing one or those after it.
C17_FailedWiring ==
    (last.op = "configure_networking" /\ ~last.result.ok) =>
        LET self == last.before.system
            was  == last.before.networks
            now  == systems[last.sys]
            made == Len(last.calls) - 1
        IN
        IF Undefined(self.network_names) # {}
        THEN /\ last.calls = <<>>
             /\ now = self
             /\ networks = was
        ELSE /\ made >= 0
             /\ last.calls[made + 1].ret = None
             /\ last.result.err = CapacityError(networks[last.calls[made + 1].net].name)
             /\ \A i \in 1..made : last.calls[i].ret # None
             /\ \A n \in NetIds :
                   /\ LeaseList(now, networks[n].name) =
                         LeaseList(self, networks[n].name) \o RetsOn(last.calls, n)
                   /\ IsInternal(n) =>
                         networks[n].allocated_hosts[1] =
                            was[n].allocated_hosts[1]
                               \cup {RetsOn(last.calls, n)[i] : i \in 1..Len(RetsOn(last.calls, n))}
                   /\ ~IsInternal(n) => networks[n] = was[n]

\* a wiring failed on an exhausted pool at a later reference, after leasing
\* for an earlier reference on another network
C17_Witness ==
    /\ last.op = "configure_networking"
    /\ ~last.result.ok
    /\ Len(last.calls) >= 2
    /\ last.calls[1].net # last.calls[Len(last.calls)].net
    /\ last.calls[1].ret # None
    /\ Len(LeaseList(systems[last.sys], networks[last.calls[1].net].name)) >
          Len(LeaseList(last.before.system, networks[last.calls[1].net].name))

\* C18: per system the wiring status moves from Unwired to Wired or to
\* Failed and stays there, and once a system is Wired no step, another
\* configure_networking call on it included, changes its resolved-network
\* list or its lease map, nor any network's lease set on its behalf.
C18_WiredIsTerminal ==
    [][\A s \in SysIds :
          /\ status[s] \in {"Wired", "Failed"} => status'[s] = status[s]
          /\ status[s] = "Wired" =>
                /\ systems'[s].networks = systems[s].networks
                /\ systems'[s].leased_network_addresses = systems[s].leased_network_addresses
                /\ (last'.op = "configure_networking" /\ last'.sys = s) =>
                      \A n \in NetIds : networks'[n].allocated_hosts = networks[n].allocated_hosts
      ]_vars

\* the lines of a text without their indentation and the line breaks
LinesOf(text) == SelectSeq(text, LAMBDA c : c.t \notin {"space", "tab", "newline"})

\* the line the i-th declared reference of a system stands for: the bind
\* line with the address leased for that reference and the network's name
\* when the network is Internal, the public line when it is Public
ReferenceLine(system, i) ==
    LET name == system.network_names[i]
        n    == CHOOSE n \in NetIds : networks[n].name = name
    IN IF IsInternal(n)
       THEN [t |-> "private_network",
             args |-> <<LeaseList(system, name)[Occurrences(system.network_names, name, i)], name>>]
       ELSE [t |-> "public_network", args |-> <<>>]

\* the block of a system: opened under its name, the base image set, one
\* line per declared reference in declared order, closed
BlockOf(system) ==
    << [t |-> "define", args |-> <<system.name>>], [t |-> "box", args |-> <<system.base_box>>] >>
    \o [i \in 1..Len(system.network_names) |-> ReferenceLine(system, i)]
    \o << [t |-> "end", args |-> <<>>] >>

\* every system has been wired by one configure_networking call
EachWiredOnce == \A s \in SysIds : WireCalls(s) = 1

\* C21: with every system wired by one call, the emitted script has inside
\* each system's block, in declared reference order, exactly one bind line
\* per reference to an Internal network, with the address leased for that
\* reference and the network's name, and exactly one public line per
\* reference to a Public network, and no other interface line.
C21_OneLinePerReference ==
    (output # None /\ EachWiredOnce) =>
        LinesOf(output[1]) =
            << [t |-> "configure", args |-> <<>>] >>
            \o BlockOf(systems[1]) \o BlockOf(systems[2]) \o BlockOf(systems[3])
            \o << [t |-> "end", args |-> <<>>] >>

\* a script emitted for a system with two references to one Internal
\* network and a system with a reference to the Public network
C21_Witness ==
    /\ output # None
    /\ EachWiredOnce
    /\ \E s1, s2 \in SysIds :
          /\ systems[s1].network_names \in {<<"LAN", "LAN">>, <<"TestNet", "TestNet">>}
          /\ systems[s2].network_names = <<"WAN">>
          /\ Cardinality({i \in 1..Len(output[1]) : output[1][i].t = "private_network"}) = 2
          /\ Cardinality({i \in 1..Len(output[1]) : output[1][i].t = "public_network"}) = 1

\* C26: in every state the lease set of each Internal network is the set
\* of the addresses its successful lease calls have returned so far, each
\* of them an address of the network's own subnet other than its network
\* and broadcast address; a Public network has no lease set and has
\* returned nothing; and every address a System holds under a name is
\* among those returned by the network of that name.
C26_LeaseSetsAndLeaseMaps ==
    /\ \A n \in NetIds :
          IF IsInternal(n)
          THEN /\ networks[n].allocated_hosts = Some(BagToSet(returned[n]))
               /\ \A a \in BagToSet(returned[n]) :
                     /\ contains_addr(networks[n].subnet[1], a)
                     /\ a # network(networks[n].subnet[1])
                     /\ a # broadcast(networks[n].subnet[1])
          ELSE /\ networks[n].allocated_hosts = None
               /\ returned[n] = EmptyBag
    /\ \A s \in SysIds :
       \A name \in DOMAIN systems[s].leased_network_addresses :
          \E n \in NetIds :
             /\ networks[n].name = name
             /\ IsInternal(n)
             /\ \A i \in 1..Len(LeaseListOf(s, name)) :
                   LeaseListOf(s, name)[i] \in BagToSet(returned[n])

\* one system holds addresses of both Internal networks, and LAN has
\* returned a second address to another caller
C26_Witness ==
    /\ \E s \in SysIds :
          /\ LeaseListOf(s, "LAN") = <<Ip(192, 168, 0, 2)>>
          /\ LeaseListOf(s, "TestNet") = <<Ip(192, 168, 0, 1)>>
    /\ BagToSet(returned[1]) = {Ip(192, 168, 0, 1), Ip(192, 168, 0, 2)}
    /\ BagToSet(returned[2]) = {Ip(192, 168, 0, 1)}

\* C27: a configure_networking call on a system that declares a name no
\* network of the scenario has fails and changes neither any network, its
\* lease set included, nor any system, the caller's resolved-network list
\* and lease map included, nor what the networks have returned, wherever in
\* the declared list the unresolved name stands.
C27_UnresolvedChangesNothing ==
    [][ \A s \in SysIds :
          ( /\ log' = Append(log, [op |-> "configure_networking", id |-> s])
            /\ Undefined(systems[s].network_names) # {} ) =>
              /\ ~last'.result.ok
              /\ status'[s] = "Failed"
              /\ networks' = networks
              /\ systems' = systems
              /\ returned' = returned
      ]_vars

\* a system declaring two Internal networks ahead of an undefined name
\* failed to wire; LAN holds the one address it had leased before
C27_Witness ==
    /\ last.op = "configure_networking"
    /\ last.before.system.network_names = <<"LAN", "TestNet", "OtherNet">>
    /\ status[last.sys] = "Failed"
    /\ networks[1].allocated_hosts = Some({Ip(192, 168, 0, 1)})
    /\ networks[2].allocated_hosts = Some({})
    /\ systems[last.sys].networks = <<>>
    /\ systems[last.sys].leased_network_addresses = <<>>

(***************************************************************************)
(* Properties of Network::from_toml, under SpecNet.                        *)
(***************************************************************************)
IsString(value) == value.kind = "str"

DeclaresType(record, type) == IsString(record.type) /\ record.type.v = type

\* the subnet text of the record reads as a CIDR range
SubnetParses(record) == IsString(record.subnet) /\ parse(record.subnet.v).ok

ParsedSubnet(record) == parse(record.subnet.v).val

InPrivateRange(subnet) ==
    \E i \in 1..Len(private_nets) : contains(private_nets[i], subnet)

\* the checks of construction in their order, and whether a record fails each
Checks ==
    << "name present", "name is a string", "type present", "type is a string",
       "type is Public or Internal", "subnet present", "subnet is a string",
       "subnet parses", "prefix length at most 30", "subnet in a private range",
       "no subnet key" >>

FailsCheck(record, check) ==
    CASE check = "name present" -> record.name.kind = "absent"
      [] check = "name is a string" -> ~IsString(record.name)
      [] check = "type present" -> record.type.kind = "absent"
      [] check = "type is a string" -> ~IsString(record.type)
      [] check = "type is Public or Internal" ->
            ~(DeclaresType(record, "Public") \/ DeclaresType(record, "Internal"))
      [] check = "subnet present" ->
            DeclaresType(record, "Internal") /\ record.subnet.kind = "absent"
      [] check = "subnet is a string" ->
            DeclaresType(record, "Internal") /\ ~IsString(record.subnet)
      [] check = "subnet parses" ->
            DeclaresType(record, "Internal") /\ ~SubnetParses(record)
      [] check = "prefix length at most 30" ->
            /\ DeclaresType(record, "Internal")
            /\ SubnetParses(record)
            /\ ParsedSubnet(record).prefix > 30
      [] check = "subnet in a private range" ->
            /\ DeclaresType(record, "Internal")
            /\ SubnetParses(record)
            /\ ~InPrivateRange(ParsedSubnet(record))
      [] check = "no subnet key" ->
            DeclaresType(record, "Public") /\ record.subnet.kind # "absent"

SizeError(name) ==
    <<"Network \"", name,
      "\" configured with a subnet smaller than /30. Networks smaller than /30 can't have multiple hosts.">>

Rfc1918Error(name) ==
    <<"Subnet configured for network \"", name,
      "\" is not RFC 1918 compliant. Subnets must be in valid allocation for private networks.">>

ErrorOf(record, check) ==
    CASE check = "name present" -> <<"Could not read network name">>
      [] check = "name is a string" -> <<"Could not read network name as a string">>
      [] check = "type present" ->
            <<"Could not read network type for network: ", record.name.v>>
      [] check = "type is a string" ->
            <<"Could not read network type as a string for network: ", record.name.v>>
      [] check = "type is Public or Internal" ->
            <<"Could not parse network type as a valid type for network: ", record.name.v,
              ". Valid types are: Public, Internal">>
      [] check = "subnet present" ->
            <<"Could not read subnet for network: ", record.name.v>>
      [] check = "subnet is a string" ->
            <<"Could not read subnet as string for network: ", record.name.v>>
      [] check = "subnet parses" ->
            <<"Could not parse subnet as a valid CIDR range for network: ", record.name.v>>
      [] check = "prefix length at most 30" -> SizeError(record.name.v)
      [] check = "subnet in a private range" -> Rfc1918Error(record.name.v)
      [] check = "no subnet key" ->
            <<"Network \"", record.name.v,
              "\" is configured as a Public network and has a subnet configured. Public networks can't have configured subnets.">>

FailedChecks(record) == {i \in 1..Len(Checks) : FailsCheck(record, Checks[i])}

FirstFailedCheck(record) ==
    Checks[CHOOSE i \in FailedChecks(record) : \A j \in FailedChecks(record) : i <= j]

\* C9: construction fails with the error of the earliest check, in the
\* fixed order of the checks, that the record fails, and succeeds when the
\* record fails none.
C9_FirstFailingCheck ==
    built # None =>
        IF FailedChecks(toml) = {}
        THEN built[1].ok
        ELSE /\ ~built[1].ok
             /\ built[1].err = ErrorOf(toml, FirstFailedCheck(toml))

\* a /31 outside the private ranges was rejected for its size
C9_Witness ==
    /\ built # None
    /\ toml = NetworkToml(TomlStr("TestNet"), TomlStr("Internal"), TomlStr(Cidr(1, 1, 1, 1, 31)))
    /\ FailedChecks(toml) = {9, 10}
    /\ built[1] = Err(SizeError("TestNet"))

\* the records of an Internal network whose name, type and subnet read well
ReadableInternal(record) ==
    /\ IsString(record.name)
    /\ DeclaresType(record, "Internal")
    /\ SubnetParses(record)

\* C10 as stated: /31 and /32 are rejected for their size and every prefix
\* length from 0 to 30 succeeds.
C10_AsStated ==
    (built # None /\ ReadableInternal(toml)) =>
        /\ ParsedSubnet(toml).prefix \in 31..32 => built[1] = Err(SizeError(toml.name.v))
        /\ ParsedSubnet(toml).prefix \in 0..30 => built[1].ok

\* C10 amended: /31 and /32 are rejected for their size; a prefix length
\* from 0 to 30 is never rejected for its size, and the subnet succeeds
\* exactly when it lies inside a private range, failing the RFC 1918 check
\* otherwise.
C10_PrefixLength ==
    (built # None /\ ReadableInternal(toml)) =>
        /\ ParsedSubnet(toml).prefix \in 31..32 => built[1] = Err(SizeError(toml.name.v))
        /\ ParsedSubnet(toml).prefix \in 0..30 =>
              IF InPrivateRange(ParsedSubnet(toml))
              THEN /\ built[1].ok
                   /\ built[1].val.subnet = Some(ParsedSubnet(toml))
              ELSE built[1] = Err(Rfc1918Error(toml.name.v))

\* a /30 inside a private range was accepted
C10_Witness ==
    /\ built # None
    /\ ReadableInternal(toml)
    /\ ParsedSubnet(toml).prefix = 30
    /\ built[1].ok

\* the three private ranges by their first and last address
PrivateRanges ==
    { <<Ip(10, 0, 0, 0), Ip(10, 255, 255, 255)>>,
      <<Ip(172, 16, 0, 0), Ip(172, 31, 255, 255)>>,
      <<Ip(192, 168, 0, 0), Ip(192, 168, 255, 255)>> }

\* every address from the subnet's network address to its broadcast address
\* is in one and the same private range
WhollyPrivate(subnet) ==
    \E r \in PrivateRanges :
        /\ AddrLE(r[1], network(subnet))
        /\ AddrLE(broadcast(subnet), r[2])

\* some address of the subnet is in a private range
TouchesPrivate(subnet) ==
    \E r \in PrivateRanges :
        /\ AddrLE(network(subnet), r[2])
        /\ AddrLE(r[1], broadcast(subnet))

\* C11: an Internal network is accepted only if its whole subnet, network
\* address to broadcast address, lies inside one private range; a subnet of
\* acceptable size that is not wholly inside one, whether it overlaps a
\* private range, starts in one and runs past its end, or is fully public,
\* fails with the one RFC 1918 error.
C11_WholeSubnetPrivate ==
    (built # None /\ ReadableInternal(toml)) =>
        /\ built[1].ok => WhollyPrivate(ParsedSubnet(toml))
        /\ (ParsedSubnet(toml).prefix <= 30 /\ ~WhollyPrivate(ParsedSubnet(toml))) =>
              built[1] = Err(Rfc1918Error(toml.name.v))

\* 192.168.0.0/15 starts inside 192.168.0.0/16, runs past its end, and was
\* rejected with the RFC 1918 error
C11_Witness ==
    /\ built # None
    /\ toml = NetworkToml(TomlStr("TestNet"), TomlStr("Internal"), TomlStr(Cidr(192, 168, 0, 0, 15)))
    /\ TouchesPrivate(ParsedSubnet(toml))
    /\ AddrLE(Ip(192, 168, 0, 0), network(ParsedSubnet(toml)))
    /\ ~WhollyPrivate(ParsedSubnet(toml))
    /\ built[1] = Err(Rfc1918Error("TestNet"))

PublicSubnetError(name) ==
    <<"Network \"", name,
      "\" is configured as a Public network and has a subnet configured. Public networks can't have configured subnets.">>

\* C12: constructing a Public network fails with the error naming the
\* network whenever the record has a subnet key, whatever its value, and
\* succeeds when the record has none.
C12_PublicWithSubnetKey ==
    (built # None /\ IsString(toml.name) /\ DeclaresType(toml, "Public")) =>
        IF toml.subnet.kind = "absent"
        THEN /\ built[1].ok
             /\ built[1].val.name = toml.name.v
             /\ built[1].val.network_type = "Public"
        ELSE built[1] = Err(PublicSubnetError(toml.name.v))

\* a Public record whose subnet value is no string was rejected
C12_Witness ==
    /\ built # None
    /\ DeclaresType(toml, "Public")
    /\ IsString(toml.name)
    /\ toml.subnet = TomlInt(42)
    /\ built[1] = Err(PublicSubnetError("TestNet"))

\* C13: a Network that construction returns is wholly valid: a Public one
\* has no subnet, no usable-host sequence and no lease set; an Internal one
\* has a subnet of prefix length at most 30 wholly inside a private range,
\* the usable-host sequence running from the address after the network
\* address to the address before the broadcast address, and an empty lease set.
C13_ReturnedNetworkValid ==
    (built # None /\ built[1].ok) =>
        LET net == built[1].val IN
        /\ net.name = toml.name.v
        /\ net.network_type = toml.type.v
        /\ net.network_type \in {"Public", "Internal"}
        /\ net.network_type = "Public" =>
              /\ net.subnet = None
              /\ net.available_hosts = None
              /\ net.allocated_hosts = None
        /\ net.network_type = "Internal" =>
              /\ net.subnet = Some(ParsedSubnet(toml))
              /\ net.subnet[1].prefix <= 30
              /\ WhollyPrivate(net.subnet[1])
              /\ net.available_hosts # None
              /\ net.available_hosts[1].start = saturating_add_one(network(net.subnet[1]))
              /\ net.available_hosts[1].end = saturating_sub_one(broadcast(net.subnet[1]))
              /\ net.available_hosts[1].start \notin {network(net.subnet[1]), broadcast(net.subnet[1])}
              /\ net.available_hosts[1].end \notin {network(net.subnet[1]), broadcast(net.subnet[1])}
              /\ AddrLE(net.available_hosts[1].start, net.available_hosts[1].end)
              /\ net.allocated_hosts = Some({})

\* a Public network was returned
C13_Witness ==
    /\ built # None
    /\ built[1].ok
    /\ built[1].val.network_type = "Public"
    /\ built[1].val.allocated_hosts = None

(***************************************************************************)
(* Properties of Scenario construction, under SpecScen.                    *)
(***************************************************************************)
NetworkRecords == toml.networks.v
SystemRecords == toml.systems.v

\* the names as the records give them, in input order
RecordNames(records) == [i \in 1..Len(records) |-> records[i].name.v]

\* the positions whose name occurs at another position too
Repeated(names) ==
    {i \in 1..Len(names) : \E j \in 1..Len(names) : j # i /\ names[j] = names[i]}

\* the first name, in input order, that occurs more than once
FirstRepeatedName(names) ==
    names[CHOOSE i \in Repeated(names) : \A j \in Repeated(names) : i <= j]

PairwiseDistinct(names) == Repeated(names) = {}

\* every network record passes every check of Network construction
NetworkRecordsValid == \A i \in 1..Len(NetworkRecords) : FailedChecks(NetworkRecords[i]) = {}

\* a system record with a name, an array of names and a base image, all strings
ValidSystemRecord(record) ==
    /\ IsString(record.name)
    /\ record.networks.kind = "array"
    /\ \A i \in 1..Len(record.networks.v) : IsString(record.networks.v[i])
    /\ IsString(record.base_box)

SystemRecordsValid == \A i \in 1..Len(SystemRecords) : ValidSystemRecord(SystemRecords[i])

DeclaredIn(record) == [i \in 1..Len(record.networks.v) |-> record.networks.v[i].v]

Repeat(char, n) == [i \in 1..n |-> char]

\* the lines one after another with one line break between neighbours
RECURSIVE Glue(_, _)
Glue(lines, k) ==
    IF k = 0 THEN <<>>
    ELSE IF k = 1 THEN lines[1]
    ELSE Glue(lines, k - 1) \o <<Newline>> \o lines[k]

\* the indentation of the object as it stands: depth times width spaces,
\* the width being 4 when none is set, or depth tabs
IndentationOf(self) ==
    IF self.indentation_type = "Spaces"
    THEN Repeat(Space, self.current_indentation_level *
                          (IF self.tab_size = None THEN 4 ELSE self.tab_size[1]))
    ELSE Repeat(Tab, self.current_indentation_level)

\* C22: an add call that returns appends, after the lines already there,
\* the indentation for the depth, type and width current at that call
\* followed by the given text, no other call changes the lines appended, and
\* build_string returns the lines in append order with single line breaks
\* between them and none at the end.
C22_LinesAsAppended ==
    [][ /\ IF /\ log' # log
              /\ log'[Len(log')].op = "add"
              /\ ~builder'.panicked
           THEN builder'.self.buffer =
                   Append(builder.self.buffer,
                          IndentationOf(builder.self) \o log'[Len(log')].arg)
           ELSE builder'.self.buffer = builder.self.buffer
        /\ output' # None =>
              /\ output'[1] = Glue(builder.self.buffer, Len(builder.self.buffer))
              /\ Cardinality({i \in 1..Len(output'[1]) : output'[1][i] = Newline}) =
                    IF builder.self.buffer = <<>> THEN 0 ELSE Len(builder.self.buffer) - 1
      ]_vars

\* two lines added at depths 1 and 2 and the depth lowered after them, built
C22_Witness ==
    /\ output # None
    /\ log = << Call("increase_indentation", <<>>), Call("add", Line("text", <<>>)),
                Call("increase_indentation", <<>>), Call("add", Line("text", <<>>)) >>
    /\ output[1] = Repeat(Space, 4) \o Line("text", <<>>) \o <<Newline>>
                      \o Repeat(Space, 8) \o Line("text", <<>>)

\* how many of the first i calls are the given operation
CallsOf(op, i) == Cardinality({j \in 1..i : log[j].op = op})

\* increase_indentation calls less decrease_indentation calls among the first i calls
DepthAfter(i) == CallsOf("increase_indentation", i) - CallsOf("decrease_indentation", i)

\* C29: while no decrease_indentation call has been made at depth 0, the
\* depth is the number of increase_indentation calls less the number of
\* decrease_indentation calls, whatever add calls were made; a
\* decrease_indentation call at depth 0 underflows the counter: the call
\* panics where overflow is checked and leaves the counter wrapped around
\* to its highest value where it is not, never at 0.
C29_DepthCounts ==
    /\ (\A i \in 0..Len(log) : DepthAfter(i) >= 0) =>
          /\ ~builder.panicked
          /\ builder.self.current_indentation_level = DepthAfter(Len(log))
    /\ ( /\ log # <<>>
         /\ log[Len(log)].op = "decrease_indentation"
         /\ \A i \in 0..(Len(log) - 1) : DepthAfter(i) >= 0
         /\ DepthAfter(Len(log) - 1) = 0 ) =>
          IF builder.overflow_checks
          THEN builder.panicked
          ELSE /\ ~builder.panicked
               /\ builder.self.current_indentation_level = -1

\* decrease_indentation called at depth 0, after an add, in a build that
\* does not check overflow
C29_Witness ==
    /\ ~builder.overflow_checks
    /\ log = << Call("increase_indentation", <<>>), Call("add", Line("text", <<>>)),
                Call("decrease_indentation", <<>>), Call("decrease_indentation", <<>>) >>
    /\ builder.self.current_indentation_level = -1

\* the configuration calls among the first i calls
ConfigCalls(i) == {j \in 1..i : log[j].op \in {"with_indentation_type", "with_tab_size"}}

TypeCalls(i) == {j \in 1..i : log[j].op = "with_indentation_type"}

Latest(calls) == CHOOSE j \in calls : \A k \in calls : k <= j

\* the type in force after the first i calls: that of the latest
\* with_indentation_type call, Spaces when there is none
TypeAfter(i) == IF TypeCalls(i) = {} THEN "Spaces" ELSE log[Latest(TypeCalls(i))].arg

\* the width in force after the first i calls: that of a with_tab_size call
\* when it is the latest configuration call, 4 otherwise
WidthAfter(i) ==
    IF ConfigCalls(i) # {} /\ log[Latest(ConfigCalls(i))].op = "with_tab_size"
    THEN log[Latest(ConfigCalls(i))].arg
    ELSE 4

\* the positions in the log of the add calls, in order
AddCalls == SelectSeq([i \in 1..Len(log) |-> i], LAMBDA i : log[i].op = "add")

\* C30: the configuration calls do not commute: a line is indented by one
\* tab per depth level under Tabs whatever width was set, and under Spaces
\* by depth times the width of a with_tab_size call only when that call is
\* the latest configuration call ahead of the add, by depth times 4
\* otherwise, with_indentation_type(Spaces) discarding any width set before.
C30_ConfigurationOrder ==
    ~builder.panicked =>
        /\ Len(builder.self.buffer) = Len(AddCalls)
        /\ \A k \in 1..Len(AddCalls) :
              LET i == AddCalls[k] IN
              builder.self.buffer[k] =
                 (IF TypeAfter(i - 1) = "Tabs"
                  THEN Repeat(Tab, DepthAfter(i - 1))
                  ELSE Repeat(Space, DepthAfter(i - 1) * WidthAfter(i - 1)))
                 \o log[i].arg
        /\ builder.self.indentation_type = TypeAfter(Len(log))
        /\ builder.self.indentation_type = "Spaces" =>
              builder.self.tab_size = Some(WidthAfter(Len(log)))

\* a width of 8 set, then the type set to Spaces, then a line added at
\* depth 1: the line has 4 spaces
C30_Witness ==
    /\ log = << Call("with_tab_size", 8), Call("with_indentation_type", "Spaces"),
                Call("increase_indentation", <<>>), Call("add", Line("text", <<>>)) >>
    /\ builder.self.buffer = << Repeat(Space, 4) \o Line("text", <<>>) >>

(***************************************************************************)
(* Properties of Scenario::parse_scenario, under SpecParse.                *)
(***************************************************************************)
\* the records under a key of the configuration, none when it holds no array
RecordsUnder(key) == IF toml[key].kind = "array" THEN toml[key].v ELSE <<>>

\* the networks given by the network records that pass, in input order
NetworksRead ==
    LET passing == SelectSeq(RecordsUnder("networks"), LAMBDA r : parse_network(r).ok)
    IN [k \in 1..Len(passing) |-> parse_network(passing[k]).val]

\* the stages of scenario parsing in the order claimed: the scenario block,
\* the name, the name's type, the networks array, one stage per network
\* record, the systems array, one stage per system record
StageCount == 5 + Len(RecordsUnder("networks")) + Len(RecordsUnder("systems"))

SystemsStage == 5 + Len(RecordsUnder("networks"))

\* the outcome of a stage taken by itself: no error, or the error it gives
StageOutcome(i) ==
    IF i = 1
    THEN IF toml.scenario.kind = "absent"
         THEN Err(<<"Could not get scenario from configuration">>) ELSE Ok(<<>>)
    ELSE IF i = 2
    THEN IF toml.scenario.kind = "absent" \/ toml.scenario.v.name.kind = "absent"
         THEN Err(<<"Could not read name of scenario from configuration">>) ELSE Ok(<<>>)
    ELSE IF i = 3
    THEN IF toml.scenario.kind = "absent" \/ toml.scenario.v.name.kind # "str"
         THEN Err(<<"Could not read name of scenario as a string">>) ELSE Ok(<<>>)
    ELSE IF i = 4
    THEN IF toml.networks.kind # "array"
         THEN Err(<<"Could not read networks from configuration">>) ELSE Ok(<<>>)
    ELSE IF i < SystemsStage
    THEN parse_network(RecordsUnder("networks")[i - 4])
    ELSE IF i = SystemsStage
    THEN IF toml.systems.kind # "array"
         THEN Err(<<"Could not get systems from configuration">>) ELSE Ok(<<>>)
    ELSE parse_system(RecordsUnder("systems")[i - SystemsStage], NetworksRead)

FailedStages == {i \in 1..StageCount : ~StageOutcome(i).ok}

FirstFailedStage == CHOOSE i \in FailedStages : \A j \in FailedStages : i <= j

\* C23: parse_scenario returns the error of the first stage that fails in
\* the order scenario block, name present, name a string, networks array,
\* the network records in input order, systems array, the system records
\* in input order, and succeeds when no stage fails; an error of a system
\* stage is returned only when every network stage passes.
C23_FirstFailedStage ==
    built # None =>
        IF FailedStages = {}
        THEN built[1].ok
        ELSE /\ built[1] = Err(StageOutcome(FirstFailedStage).err)
             /\ built[1].err[1] \in {"Could not get systems from configuration",
                                     "Could not read name of system"} =>
                   /\ toml.networks.kind = "array"
                   /\ \A k \in 1..Len(RecordsUnder("networks")) :
                         parse_network(RecordsUnder("networks")[k]).ok

\* the second network record has no name and the first none of the subnet
\* the closure asks for, the systems array is missing: the error returned
\* is the first network record's
C23_Witness ==
    /\ built # None
    /\ toml.scenario = TomlTable([name |-> TomlStr("Test scenario")])
    /\ toml.networks = TomlArray(<< NetworkToml(TomlStr("WAN"), TomlStr("Public"), Absent),
                                    NetworkToml(Absent, TomlStr("Internal"),
                                                TomlStr(Cidr(192, 168, 0, 1, 24))) >>)
    /\ toml.systems = Absent
    /\ built[1] = Err(<<"Could not read subnet for network: ", "WAN">>)

\* the errors of the stages that follow the network records
SystemStageErrors ==
    { "Could not get systems from configuration", "Could not read name of system",
      "Could not read name of system as a string", "Could not read networks for system: ",
      "Could not parse networks for system: ", "System \"",
      "Could not read base_box for system: ", "Could not read base_box as a string for system: " }

\* the network records that Network::from_toml rejects
RejectedByFromToml ==
    {k \in 1..Len(RecordsUnder("networks")) :
        ~Network_from_toml(RecordsUnder("networks")[k]).ok}

\* C25: when parse_scenario gets as far as the network records, it fails on
\* them exactly when Network::from_toml rejects one of them, with the error
\* Network::from_toml gives for the first record it rejects; a Public
\* network without a subnet key, in particular, is accepted.
C25_ValidatedAsNetworkFromToml ==
    (built # None /\ \A i \in 1..4 : StageOutcome(i).ok) =>
        IF RejectedByFromToml = {}
        THEN built[1].ok \/ built[1].err[1] \in SystemStageErrors
        ELSE built[1] =
                Network_from_toml(RecordsUnder("networks")[
                    CHOOSE k \in RejectedByFromToml : \A j \in RejectedByFromToml : k <= j])

(***************************************************************************)
(* Properties of System::from_toml, under SpecSys.                         *)
(***************************************************************************)
SystemChecks ==
    << "name present", "name is a string", "networks an array", "entries are strings",
       "base_box present", "base_box is a string" >>

\* whether the record fails a check, each check taken by itself
FailsSystemCheck(record, check) ==
    IF check = 1 THEN record.name.kind = "absent"
    ELSE IF check = 2 THEN record.name.kind # "str"
    ELSE IF check = 3 THEN record.networks.kind # "array"
    ELSE IF check = 4 THEN /\ record.networks.kind = "array"
                           /\ \E i \in 1..Len(record.networks.v) :
                                 record.networks.v[i].kind # "str"
    ELSE IF check = 5 THEN record.base_box.kind = "absent"
    ELSE record.base_box.kind # "str"

\* the error of a check; those after the name checks end with the name
SystemErrorOf(record, check) ==
    IF check = 1 THEN <<"Could not read name of system">>
    ELSE IF check = 2 THEN <<"Could not read name of system as a string">>
    ELSE IF check = 3 THEN <<"Could not read networks for system: ", record.name.v>>
    ELSE IF check = 4 THEN <<"Could not parse networks for system: ", record.name.v>>
    ELSE IF check = 5 THEN <<"Could not read base_box for system: ", record.name.v>>
    ELSE <<"Could not read base_box as a string for system: ", record.name.v>>

FailedSystemChecks(record) ==
    {c \in 1..Len(SystemChecks) : FailsSystemCheck(record, c)}

\* C24: System::from_toml returns the error of the first check the record
\* fails in the order name present, name a string, networks an array, every
\* entry a string, base_box present, base_box a string, every error after
\* the name checks naming the system; when no check fails the System has the
\* configured name and base_box and its network_names is the configured
\* list, in the same order and with its duplicates.
C24_FirstFailingSystemCheck ==
    built # None =>
        IF FailedSystemChecks(toml) = {}
        THEN /\ built[1].ok
             /\ built[1].val.name = toml.name.v
             /\ built[1].val.base_box = toml.base_box.v
             /\ built[1].val.network_names =
                   [i \in 1..Len(toml.networks.v) |-> toml.networks.v[i].v]
        ELSE LET first == CHOOSE c \in FailedSystemChecks(toml) :
                              \A d \in FailedSystemChecks(toml) : c <= d
             IN /\ built[1] = Err(SystemErrorOf(toml, first))
                /\ first > 2 => built[1].err[Len(built[1].err)] = toml.name.v

\* a record naming LAN twice, built with both occurrences kept
C24_Witness ==
    /\ built # None
    /\ toml.networks = TomlArray(<<TomlStr("LAN"), TomlStr("WAN"), TomlStr("LAN")>>)
    /\ built[1].ok
    /\ built[1].val.network_names = <<"LAN", "WAN", "LAN">>

(***************************************************************************)
(* Properties of name resolution, under SpecResolve.                       *)
(***************************************************************************)
\* the networks of the list that have exactly the name
Named(name) == {n \in 1..Len(networks) : networks[n].name = name}

\* the networks of the list that stand behind another of the same name
Shadowed == {n \in 1..Len(networks) : \E m \in 1..(n - 1) : networks[m].name = networks[n].name}

\* C28: a wiring resolves every declared name to the earliest network of
\* the list that has exactly that name, and fails as unresolved on a name
\* that no network has exactly, also when a network's name differs from it
\* in case only; a network standing behind another of its name is never
\* resolved to and its lease set stays empty.
C28_FirstExactMatch ==
    last.op = "configure_networking" =>
        LET self == last.before.system
            now  == systems[last.sys]
            missing == {i \in 1..Len(self.network_names) : Named(self.network_names[i]) = {}}
        IN
        /\ IF missing = {}
           THEN /\ Len(now.networks) = Len(self.network_names)
                /\ \A i \in 1..Len(self.network_names) :
                      /\ now.networks[i] \in Named(self.network_names[i])
                      /\ \A n \in Named(self.network_names[i]) : now.networks[i] <= n
           ELSE /\ ~last.result.ok
                /\ last.result.err =
                      <<"System \"", self.name, "\" is configured to use network \"",
                        self.network_names[CHOOSE i \in missing : \A j \in missing : i <= j],
                        "\" but no network with that name could be found">>
                /\ now.networks = <<>>
        /\ \A n \in Shadowed :
              /\ \A i \in 1..Len(now.networks) : now.networks[i] # n
              /\ networks[n].allocated_hosts \in {None, Some({})}
              /\ \A i \in 1..Len(last.calls) : last.calls[i].net # n

\* two Internal networks named LAN and one named lan, referenced as LAN
\* and lan: both LAN leases come from the first network
C28_Witness ==
    /\ last.op = "configure_networking"
    /\ Len(networks) = 3
    /\ networks[1].name = "LAN" /\ networks[2].name = "LAN" /\ networks[3].name = "lan"
    /\ networks[2].network_type = "Internal"
    /\ last.before.system.network_names = <<"LAN", "lan">>
    /\ systems[last.sys].networks = <<1, 3>>
    /\ networks[1].allocated_hosts = Some({Ip(192, 168, 0, 1)})
    /\ networks[2].allocated_hosts = Some({})

====
